---------------------------- MODULE Spec2Model ----------------------------
(***************************************************************************)
(* FutBotV2: the Order Lifecycle & Position Reconciliation Engine.         *)
(*                                                                         *)
(* The module holds several specifications over one set of variables:      *)
(*   SpecLedger  PositionTracker driven through its public operations      *)
(*               (add_position, close_position, sync_with_exchange) with   *)
(*               arbitrary inputs and exchange snapshots.                  *)
(*   SpecGuard   the bracket price guard of _place_sl_tp_orders applied to *)
(*               proposed levels and market prices drawn from a grid.      *)
(*   SpecRisk    RiskManagement driven through can_trade and               *)
(*               update_trade_outcome while the clock advances.            *)
(*   SpecPlace   one OrderManager.place_order call, one step per exchange  *)
(*               request, against an exchange that may reject any request. *)
(*   Spec        the engine: the trading cycle (reconciliation, can_trade, *)
(*               place_order), the position monitor and close_position,    *)
(*               against an exchange whose positions may also be closed    *)
(*               from outside.                                             *)
(*   SpecCapacity the engine with every symbol in tracked_pairs.           *)
(*   SpecCloseAll one OrderManager.close_all_positions call, one step per  *)
(*               snapshot entry.                                           *)
(*   SpecMonitor the PositionMonitor task alone: passes of check_positions *)
(*               over a ledger of up to two positions.                     *)
(*   SpecBot     main(): initialize, start with the trading loop and the   *)
(*               monitor task, an interrupt, shutdown.                     *)
(* Each specification initialises the variables it does not use to a fixed *)
(* idle value and leaves them unchanged.                                   *)
(*                                                                         *)
(* Conventions.  A Python dict is an insertion-ordered sequence of         *)
(* <<key, value>> pairs.  Python None is the value None.  Prices and       *)
(* quantities are integers in units of 10^-6 (Micro per 1.0).              *)
(***************************************************************************)
EXTENDS Integers, Sequences, FiniteSets, TLC

VARIABLES
    tracker,    \* a PositionTracker; in Spec the one FutBotV2.initialize creates
    om_tracker, \* the PositionTracker OrderManager.__init__ creates
    exchange,   \* the exchange's position amount per symbol
    po,         \* the activation of place_order (SpecPlace) or close_all_positions
    guard,      \* SpecGuard: one _place_sl_tp_orders price computation
    risk,       \* the RiskManagement state
    now,        \* the clock (utcnow / time.time), in seconds
    bot,        \* the FutBotV2 object and the task that runs main()
    monitor,    \* the PositionMonitor object and the task that runs its start()
    last        \* the last operation performed, its inputs and what it returned

vars == <<tracker, om_tracker, exchange, po, guard, risk, now, bot, monitor, last>>

(***************************************************************************)
(* Bounds of the model.                                                    *)
(***************************************************************************)
MaxClosed == 1    \* longest closed history the ledger specification explores

Symbols == {"BTCUSDT", "ETHUSDT"}
Sides == {"BUY", "SELL"}

None == -1        \* Python None (every real price and quantity is >= 0)

Micro == 1000000  \* the integer that stands for the decimal 1.0
Cents(c) == c * 10000

Abs(x) == IF x < 0 THEN -x ELSE x

(***************************************************************************)
(* Python dict, insertion-ordered: a sequence of <<key, value>> pairs with *)
(* pairwise distinct keys.                                                 *)
(***************************************************************************)
DictKeys(d) == [i \in 1..Len(d) |-> d[i][1]]

DictHas(d, k) == \E i \in 1..Len(d) : d[i][1] = k

DictGet(d, k) == d[CHOOSE i \in 1..Len(d) : d[i][1] = k][2]

\* d[k] = v: an existing key keeps its place, a new key goes last
DictSet(d, k, v) ==
    IF DictHas(d, k)
    THEN [i \in 1..Len(d) |-> IF d[i][1] = k THEN <<k, v>> ELSE d[i]]
    ELSE Append(d, <<k, v>>)

\* del d[k]
DictDel(d, k) == SelectSeq(d, LAMBDA e : e[1] # k)

\* list(d.values())
DictValues(d) == [i \in 1..Len(d) |-> d[i][2]]

SeqToSet(q) == {q[i] : i \in 1..Len(q)}

(***************************************************************************)
(* PositionTracker (src/exchange/position_tracker.py).  A tracker value is *)
(* [positions |-> dict symbol -> position, closed_positions |-> list].     *)
(* utcnow is the clock reading the operation takes.                        *)
(***************************************************************************)
NewTracker == [positions |-> <<>>, closed_positions |-> <<>>]

\* add_position with the duplicate check dropped: the entry is overwritten
add_position_overwrite(t, position) ==
    [t EXCEPT !.positions = DictSet(t.positions, position.symbol, position)]

add_position(t, position) ==
    IF DictHas(t.positions, position.symbol)
    THEN t
    ELSE [t EXCEPT !.positions = DictSet(t.positions, position.symbol, position)]

\* get_position(symbol) is not None
has_position(t, symbol) == DictHas(t.positions, symbol)

\* get_position(symbol), where it is not None
get_position(t, symbol) == DictGet(t.positions, symbol)

\* position.update({...}): the position record with the four exit fields set
WithExit(position, exit_price, utcnow, exit_reason, pnl) ==
    [f \in (DOMAIN position) \cup {"exit_price", "exit_time", "exit_reason", "pnl"} |->
        CASE f = "exit_price" -> exit_price
          [] f = "exit_time" -> utcnow
          [] f = "exit_reason" -> exit_reason
          [] f = "pnl" -> pnl
          [] OTHER -> position[f]]

\* close_position that drops the position without appending it to the history
tracker_close_no_history(t, symbol, exit_price, utcnow, exit_reason, pnl) ==
    [t EXCEPT !.positions = DictDel(t.positions, symbol)]

\* close_position that appends the record and leaves the position open
tracker_close_keeps_open(t, symbol, exit_price, utcnow, exit_reason, pnl) ==
    IF ~DictHas(t.positions, symbol)
    THEN t
    ELSE [t EXCEPT !.closed_positions =
                       Append(@, WithExit(DictGet(t.positions, symbol), exit_price,
                                          utcnow, exit_reason, pnl))]

tracker_close_position(t, symbol, exit_price, utcnow, exit_reason, pnl) ==
    IF ~DictHas(t.positions, symbol)
    THEN t
    ELSE [positions |-> DictDel(t.positions, symbol),
          closed_positions |->
              Append(t.closed_positions,
                     WithExit(DictGet(t.positions, symbol), exit_price, utcnow,
                              exit_reason, pnl))]

get_all_positions(t) == DictValues(t.positions)

get_closed_positions(t) == t.closed_positions

RECURSIVE SumPnl(_)
SumPnl(closed) ==
    IF closed = <<>> THEN 0 ELSE closed[1].pnl + SumPnl(Tail(closed))

get_total_pnl(t) == SumPnl(t.closed_positions)

(***************************************************************************)
(* An exchange snapshot (get_position_risk) is a sequence of entries       *)
(* [symbol, positionAmt, entryPrice, markPrice, unrealizedProfit,          *)
(* leverage], at most one per symbol (one-way position mode).              *)
(***************************************************************************)
SnapHas(snapshot, symbol) == \E i \in 1..Len(snapshot) : snapshot[i].symbol = symbol

\* next((p for p in exchange_positions if p['symbol'] == symbol), None)
SnapGet(snapshot, symbol) ==
    snapshot[CHOOSE i \in 1..Len(snapshot) :
                 /\ snapshot[i].symbol = symbol
                 /\ \A j \in 1..(i - 1) : snapshot[j].symbol # symbol]

\* the first loop of sync_with_exchange over list(self.positions.keys())
RECURSIVE SyncRemove(_, _, _, _)
SyncRemove(t, keys, snapshot, utcnow) ==
    IF keys = <<>> THEN t
    ELSE LET symbol == Head(keys)
             found == SnapHas(snapshot, symbol)
             t1 == IF ~found
                   THEN tracker_close_position(t, symbol, 0, utcnow, "external_close", 0)
                   ELSE IF SnapGet(snapshot, symbol).positionAmt = 0
                        THEN tracker_close_position(
                                 t, symbol, SnapGet(snapshot, symbol).markPrice, utcnow,
                                 "external_close",
                                 SnapGet(snapshot, symbol).unrealizedProfit)
                        ELSE t
         IN SyncRemove(t1, Tail(keys), snapshot, utcnow)

\* the position sync_with_exchange adopts for a snapshot entry
Adopted(pos, utcnow) ==
    [symbol |-> pos.symbol,
     side |-> IF pos.positionAmt > 0 THEN "BUY" ELSE "SELL",
     quantity |-> Abs(pos.positionAmt),
     entry_price |-> pos.entryPrice,
     leverage |-> pos.leverage,
     entry_time |-> utcnow,
     stop_loss |-> None,
     take_profits |-> <<>>]

\* the second loop of sync_with_exchange over exchange_positions
RECURSIVE SyncAdopt(_, _, _)
SyncAdopt(t, snapshot, utcnow) ==
    IF snapshot = <<>> THEN t
    ELSE LET pos == Head(snapshot)
             t1 == IF pos.positionAmt # 0 /\ ~DictHas(t.positions, pos.symbol)
                   THEN add_position(t, Adopted(pos, utcnow))
                   ELSE t
         IN SyncAdopt(t1, Tail(snapshot), utcnow)

\* sync_with_exchange without its first loop: nothing is closed locally
sync_without_remove(t, snapshot, utcnow) == SyncAdopt(t, snapshot, utcnow)

sync_with_exchange(t, snapshot, utcnow) ==
    SyncAdopt(SyncRemove(t, DictKeys(t.positions), snapshot, utcnow), snapshot, utcnow)

(***************************************************************************)
(* SpecLedger: a PositionTracker under any sequence of add_position,       *)
(* close_position and sync_with_exchange calls.                            *)
(***************************************************************************)
PositionAmts == {-Micro, 0, Micro}
EntryPrice == 100 * Micro
MarkPrice == 101 * Micro
Profit == 3 * Micro

\* positions a caller (OrderManager._record_position) hands to add_position
PositionInputs ==
    [symbol : Symbols, side : Sides, quantity : {Micro},
     entry_price : {EntryPrice}, entry_time : {0},
     stop_loss : {EntryPrice - Micro},
     take_profits : {<<[price |-> EntryPrice + Micro, percentage |-> 100]>>}]

\* what the exchange may report for one symbol
SnapEntries(symbol) ==
    [symbol : {symbol}, positionAmt : PositionAmts, entryPrice : {EntryPrice},
     markPrice : {MarkPrice}, unrealizedProfit : {Profit}, leverage : {5}]

\* snapshots: per symbol one entry or none, in the exchange's symbol order
Snapshots ==
    LET one(symbol) == {<<>>} \cup {<<e>> : e \in SnapEntries(symbol)}
    IN {a \o b : a \in one("BTCUSDT"), b \in one("ETHUSDT")}

Idle == [op |-> "none"]

\* the variables the ledger specification leaves alone
ledgerFrame == <<om_tracker, exchange, po, guard, bot, monitor, risk, now>>

InitLedger ==
    /\ tracker = NewTracker
    /\ om_tracker = Idle
    /\ exchange = Idle
    /\ po = Idle
    /\ guard = Idle
    /\ bot = Idle
    /\ monitor = Idle
    /\ risk = Idle
    /\ now = 0
    /\ last = Idle

LedgerAdd(position) ==
    /\ tracker' = add_position(tracker, position)
    /\ last' = [op |-> "add_position", symbol |-> position.symbol]
    /\ UNCHANGED ledgerFrame

LedgerClose(symbol, exit_price, exit_reason, pnl) ==
    /\ Len(tracker.closed_positions) < MaxClosed
    /\ tracker' = tracker_close_position(tracker, symbol, exit_price, now, exit_reason, pnl)
    /\ last' = [op |-> "close_position", symbol |-> symbol]
    /\ UNCHANGED ledgerFrame

LedgerSync(snapshot) ==
    /\ Len(sync_with_exchange(tracker, snapshot, now).closed_positions) <= MaxClosed
    /\ tracker' = sync_with_exchange(tracker, snapshot, now)
    /\ last' = [op |-> "sync_with_exchange", raised |-> FALSE, snapshot |-> snapshot]
    /\ UNCHANGED ledgerFrame

\* client.get_position_risk() raises: sync_with_exchange logs and re-raises
LedgerSyncRaises ==
    /\ last' = [op |-> "sync_with_exchange", raised |-> TRUE, snapshot |-> <<>>]
    /\ UNCHANGED <<tracker, ledgerFrame>>

NextLedger ==
    \/ \E position \in PositionInputs : LedgerAdd(position)
    \/ \E symbol \in Symbols : LedgerClose(symbol, MarkPrice - 2 * Micro, "manual", -Profit)
    \/ \E snapshot \in Snapshots : LedgerSync(snapshot)
    \/ LedgerSyncRaises

SpecLedger == InitLedger /\ [][NextLedger]_vars

OpenSymbols(t) == SeqToSet(DictKeys(t.positions))

(***************************************************************************)
(* C1.  After any sequence of add_position, close_position and             *)
(* sync_with_exchange calls the ledger holds at most one open position per *)
(* symbol (each stored under its own symbol), and an add_position for a    *)
(* symbol that is already open leaves the open positions and the closed    *)
(* history as they were.                                                   *)
(***************************************************************************)
C1_OnePerSymbol ==
    /\ \A i, j \in 1..Len(tracker.positions) :
           tracker.positions[i][1] = tracker.positions[j][1] => i = j
    /\ \A i \in 1..Len(tracker.positions) :
           tracker.positions[i][2].symbol = tracker.positions[i][1]
    /\ \A symbol \in Symbols :
           Cardinality({i \in 1..Len(get_all_positions(tracker)) :
                            get_all_positions(tracker)[i].symbol = symbol}) <= 1

C1_AddKeepsExisting ==
    (last'.op = "add_position" /\ has_position(tracker, last'.symbol))
        => tracker' = tracker

C1_UniquePerSymbol == []C1_OnePerSymbol /\ [][C1_AddKeepsExisting]_vars

\* an add_position for an open symbol has just been refused
C1_Witness ==
    /\ last.op = "add_position"
    /\ Len(tracker.positions) = 2
    /\ Len(tracker.closed_positions) = 1

(***************************************************************************)
(* C7.  Reconciliation closes externally-closed positions.                 *)
(***************************************************************************)
SyncDone == last'.op = "sync_with_exchange" /\ ~last'.raised

\* the symbols open before the call that the snapshot lacks or reports at 0
ExternallyClosed(t, snapshot) ==
    {symbol \in OpenSymbols(t) :
        \/ ~SnapHas(snapshot, symbol)
        \/ SnapGet(snapshot, symbol).positionAmt = 0}

\* the records the step appended to the closed history
NewClosed == {tracker'.closed_positions[i] :
                 i \in (Len(tracker.closed_positions) + 1)..Len(tracker'.closed_positions)}

\* C7 as claimed: after sync_with_exchange every symbol X that was open and is
\* absent from the snapshot or reported with positionAmt = 0 is no longer open,
\* and the closed history has a new record for X with exit_reason
\* 'external_close', the snapshot's mark price as exit_price and the snapshot's
\* unrealized profit as pnl.
C7_AsClaimedStep ==
    SyncDone =>
        \A X \in ExternallyClosed(tracker, last'.snapshot) :
            /\ ~has_position(tracker', X)
            /\ \E r \in NewClosed :
                   /\ r.symbol = X
                   /\ r.exit_reason = "external_close"
                   /\ SnapHas(last'.snapshot, X)
                   /\ r.exit_price = SnapGet(last'.snapshot, X).markPrice
                   /\ r.pnl = SnapGet(last'.snapshot, X).unrealizedProfit

C7_AsClaimed == [][C7_AsClaimedStep]_vars

\* C7 amended: as claimed when the snapshot reports X with positionAmt = 0;
\* when X is absent from the snapshot the record's exit_price and pnl are 0.
C7_AmendedStep ==
    SyncDone =>
        \A X \in ExternallyClosed(tracker, last'.snapshot) :
            /\ ~has_position(tracker', X)
            /\ \E r \in NewClosed :
                   /\ r.symbol = X
                   /\ r.exit_reason = "external_close"
                   /\ IF SnapHas(last'.snapshot, X)
                      THEN /\ r.exit_price = SnapGet(last'.snapshot, X).markPrice
                           /\ r.pnl = SnapGet(last'.snapshot, X).unrealizedProfit
                      ELSE r.exit_price = 0 /\ r.pnl = 0

C7_ExternalClose == [][C7_AmendedStep]_vars

\* a sync has just closed a position the snapshot reports at 0
C7_Witness ==
    /\ last.op = "sync_with_exchange"
    /\ ~last.raised
    /\ \E i \in 1..Len(tracker.closed_positions) :
           LET r == tracker.closed_positions[i]
           IN /\ r.exit_reason = "external_close"
              /\ SnapHas(last.snapshot, r.symbol)
              /\ SnapGet(last.snapshot, r.symbol).positionAmt = 0
              /\ r.exit_price = MarkPrice
              /\ r.pnl = Profit
              /\ ~has_position(tracker, r.symbol)

(***************************************************************************)
(* C8.  After a successful sync_with_exchange the open symbols are exactly *)
(* the symbols the snapshot reports with a nonzero positionAmt, and each   *)
(* position the call adopted has side BUY iff positionAmt > 0 (else SELL), *)
(* quantity |positionAmt|, stop_loss unset and no take-profits.            *)
(***************************************************************************)
NonzeroSymbols(snapshot) ==
    {snapshot[i].symbol : i \in {j \in 1..Len(snapshot) : snapshot[j].positionAmt # 0}}

C8_SyncStep ==
    SyncDone =>
        /\ OpenSymbols(tracker') = NonzeroSymbols(last'.snapshot)
        /\ \A symbol \in OpenSymbols(tracker') \ OpenSymbols(tracker) :
               LET p == get_position(tracker', symbol)
                   e == SnapGet(last'.snapshot, symbol)
               IN /\ p.side = (IF e.positionAmt > 0 THEN "BUY" ELSE "SELL")
                  /\ p.quantity = Abs(e.positionAmt)
                  /\ p.quantity > 0
                  /\ p.stop_loss = None
                  /\ p.take_profits = <<>>

C8_SyncMatchesSnapshot == [][C8_SyncStep]_vars

\* a sync has just adopted a long and a short position
C8_Witness ==
    /\ last.op = "sync_with_exchange"
    /\ ~last.raised
    /\ OpenSymbols(tracker) = Symbols
    /\ \E a, b \in Symbols :
           /\ get_position(tracker, a).side = "BUY"
           /\ get_position(tracker, b).side = "SELL"
           /\ get_position(tracker, a).stop_loss = None
           /\ get_position(tracker, b).stop_loss = None

(***************************************************************************)
(* C33: ledger conservation.  Every position the ledger accepted is in    *)
(* exactly one of the open set and the closed history: a step leaves an    *)
(* open position as it was or moves it, unchanged but for the exit fields, *)
(* to the history, and nothing else enters the history; the history only   *)
(* grows; every record in it carries exit_price, exit_time, exit_reason    *)
(* and pnl, and no open position does; get_total_pnl is the sum of pnl     *)
(* over the history.                                                       *)
(***************************************************************************)
C33_ExitFields == {"exit_price", "exit_time", "exit_reason", "pnl"}

RECURSIVE C33_PnlUpTo(_, _)
C33_PnlUpTo(closed, n) ==
    IF n = 0 THEN 0 ELSE C33_PnlUpTo(closed, n - 1) + closed[n].pnl

C33_Records ==
    /\ \A i \in 1..Len(get_closed_positions(tracker)) :
           C33_ExitFields \subseteq DOMAIN get_closed_positions(tracker)[i]
    /\ \A i \in 1..Len(get_all_positions(tracker)) :
           C33_ExitFields \cap DOMAIN get_all_positions(tracker)[i] = {}
    /\ get_total_pnl(tracker) =
           C33_PnlUpTo(get_closed_positions(tracker), Len(get_closed_positions(tracker)))

C33_Step ==
    LET closed == get_closed_positions(tracker)
        after == get_closed_positions(tracker')
        gone == OpenSymbols(tracker) \ OpenSymbols(tracker')
    IN /\ Len(after) >= Len(closed)
       /\ SubSeq(after, 1, Len(closed)) = closed
       /\ Len(after) - Len(closed) = Cardinality(gone)
       /\ \A symbol \in OpenSymbols(tracker) \cap OpenSymbols(tracker') :
              get_position(tracker', symbol) = get_position(tracker, symbol)
       /\ \A symbol \in gone :
              \E i \in (Len(closed) + 1)..Len(after) :
                  /\ after[i].symbol = symbol
                  /\ DOMAIN after[i] = DOMAIN get_position(tracker, symbol)
                                           \cup C33_ExitFields
                  /\ [f \in DOMAIN get_position(tracker, symbol) |-> after[i][f]]
                         = get_position(tracker, symbol)

Max(a, b) == IF a >= b THEN a ELSE b
Min(a, b) == IF a <= b THEN a ELSE b

RECURSIVE Pow10(_)
Pow10(k) == IF k = 0 THEN 1 ELSE 10 * Pow10(k - 1)

\* round(x, ndigits) for x >= 0
round_to(x, ndigits) ==
    IF ndigits >= 6 THEN x
    ELSE LET unit == Pow10(6 - ndigits)
             q == x \div unit
             r == x % unit
         IN IF 2 * r < unit THEN q * unit
            ELSE IF 2 * r > unit THEN (q + 1) * unit
            ELSE IF q % 2 = 0 THEN q * unit ELSE (q + 1) * unit

\* x * (n / 10000), exact for every x that is a multiple of 10^-2
TimesBp(x, n) == (x \div 10000) * n + ((x % 10000) * n) \div 10000

(***************************************************************************)
(* The price guard of OrderManager._place_sl_tp_orders                     *)
(* (src/exchange/order_manager.py:285-341, the definition in force: the    *)
(* class body defines the method twice and the later one wins).            *)
(***************************************************************************)
\* max(current_price * 0.0015, current_price * 0.0005)
min_sl_diff(current_price) == Max(TimesBp(current_price, 15), TimesBp(current_price, 5))

\* max(current_price * 0.002, current_price * 0.0005)
min_tp_diff(current_price) == Max(TimesBp(current_price, 20), TimesBp(current_price, 5))

\* lines 300 and 316: "Adjust SL price"
guard_sl(side, sl_price, current_price) ==
    IF side = "BUY"
    THEN Max(sl_price, current_price - min_sl_diff(current_price))
    ELSE Min(sl_price, current_price + min_sl_diff(current_price))

\* lines 305 and 321: "Adjust TP prices"
guard_tp(side, tp_price, current_price) ==
    IF side = "BUY"
    THEN Max(tp_price, current_price + min_tp_diff(current_price))
    ELSE Min(tp_price, current_price - min_tp_diff(current_price))

\* lines 303-309 and 319-325: adjusted_tps
adjusted_tps(side, take_profits, current_price, price_precision) ==
    [i \in 1..Len(take_profits) |->
        [price |-> round_to(guard_tp(side, take_profits[i].price, current_price),
                            price_precision),
         percentage |-> take_profits[i].percentage]]

\* BinanceClient.create_order: f"{float(stopPrice):.{price_precision}f}", with
\* the symbol's pricePrecision
format_price(x, symbol_price_precision) == round_to(x, symbol_price_precision)

\* the stop price of the first STOP_MARKET order _place_orders_with_retry sends
first_stop_price(side, sl_price, current_price, price_precision, symbol_price_precision) ==
    format_price(round_to(guard_sl(side, sl_price, current_price), price_precision),
                 symbol_price_precision)

(***************************************************************************)
(* SpecGuard: _place_sl_tp_orders computes the first bracket prices for a  *)
(* side, a market price read from get_klines and the signal's proposed     *)
(* levels.  The proposed stop-loss lies on the loss side of the market     *)
(* price and the proposed take-profit on the profit side, at the listed    *)
(* distances.                                                              *)
(***************************************************************************)
GuardPrices == {Cents(9999), Cents(10000), Cents(10001), Cents(10070)}
SlDistances == {Cents(3), Cents(5), Cents(15), Cents(200)}
TpDistances == {Cents(3), Cents(100)}
LotPrecisions == {2, 3}        \* get_precision: LOT_SIZE steps 0.01 and 0.001
SymbolPricePrecisions == {2}   \* exchangeInfo pricePrecision

GuardInputs ==
    {[pc |-> "input", side |-> side, current_price |-> cp,
      sl_price |-> IF side = "BUY" THEN cp - sd ELSE cp + sd,
      take_profits |-> <<[price |-> IF side = "BUY" THEN cp + td ELSE cp - td,
                          percentage |-> 100]>>,
      price_precision |-> lp, symbol_price_precision |-> pp,
      stop_sent |-> None, tps_sent |-> <<>>] :
        side \in Sides, cp \in GuardPrices, sd \in SlDistances, td \in TpDistances,
        lp \in LotPrecisions, pp \in SymbolPricePrecisions}

guardFrame == <<tracker, om_tracker, exchange, po, risk, now, bot, monitor>>

InitGuard ==
    /\ guard \in GuardInputs
    /\ bot = Idle
    /\ monitor = Idle
    /\ tracker = Idle
    /\ om_tracker = Idle
    /\ exchange = Idle
    /\ po = Idle
    /\ risk = Idle
    /\ now = 0
    /\ last = Idle

\* lines 289-335 and the first STOP_MARKET / TAKE_PROFIT_MARKET orders of
\* _place_orders_with_retry as BinanceClient.create_order formats them
GuardApply ==
    /\ guard.pc = "input"
    /\ guard' = [guard EXCEPT
           !.pc = "placed",
           !.stop_sent = first_stop_price(guard.side, guard.sl_price, guard.current_price,
                                          guard.price_precision,
                                          guard.symbol_price_precision),
           !.tps_sent = [i \in 1..Len(guard.take_profits) |->
                            format_price(
                                adjusted_tps(guard.side, guard.take_profits,
                                             guard.current_price,
                                             guard.price_precision)[i].price,
                                guard.symbol_price_precision)]]
    /\ last' = [op |-> "_place_sl_tp_orders"]
    /\ UNCHANGED guardFrame

NextGuard == GuardApply

SpecGuard == InitGuard /\ [][NextGuard]_vars

(***************************************************************************)
(* C5.  Bracket price guard for the stop-loss, as claimed: the stop price  *)
(* sent on the first placement attempt is at least 0.05% of the market     *)
(* price p away from p on the safe side: for a BUY position it is          *)
(* <= p*(1-0.0005), for a SELL position it is >= p*(1+0.0005).             *)
(***************************************************************************)
C5_AsClaimed ==
    guard.pc = "placed" =>
        IF guard.side = "BUY"
        THEN guard.stop_sent <= guard.current_price - TimesBp(guard.current_price, 5)
        ELSE guard.stop_sent >= guard.current_price + TimesBp(guard.current_price, 5)

(***************************************************************************)
(* C36 (as claimed): the guard only adjusts a level that is too tight.  A  *)
(* proposed stop-loss at least min_sl_diff away from the market price on   *)
(* the safe side (below for BUY, above for SELL) is sent unchanged apart   *)
(* from rounding to the precision.                                         *)
(***************************************************************************)
C36_AsClaimed ==
    (/\ guard.pc = "placed"
     /\ IF guard.side = "BUY"
        THEN guard.sl_price <= guard.current_price - min_sl_diff(guard.current_price)
        ELSE guard.sl_price >= guard.current_price + min_sl_diff(guard.current_price))
    => guard.stop_sent = format_price(round_to(guard.sl_price, guard.price_precision),
                                      guard.symbol_price_precision)

(***************************************************************************)
(* RiskManagement (src/strategies/risk_management.py).  Signal strengths   *)
(* are integers in units of 10^-3; daily_pnl and pnl are integers.  The    *)
(* trade_history list is only ever appended to and never read: the model   *)
(* keeps its length.                                                       *)
(***************************************************************************)
MinSignalStrength == 350        \* config['strategy']['min_signal_strength'], 0.35
MaxDailyLoss == 5               \* config['risk']['max_daily_loss']
MaxConcurrentPositions == 1     \* config['pairs']['max_concurrent_positions']
TradeCooldownSec == 60          \* config['strategy']['trade_cooldown_sec']
DaySeconds == 86400             \* timedelta(days=1)
StartTime == 1000000            \* the clock reading at construction

\* the sections of the configuration can_trade indexes (lines 37, 44, 53, 87)
ConfigSections == {"strategy", "risk", "pairs"}

NewRisk(utcnow) ==
    [config |-> ConfigSections,
     trade_history_len |-> 0,
     last_trade_time |-> <<>>,
     daily_pnl |-> 0,
     daily_start_time |-> utcnow,
     position_strengths |-> <<>>]

reset_daily_stats(r, utcnow) ==
    IF utcnow - r.daily_start_time > DaySeconds
    THEN [r EXCEPT !.daily_pnl = 0, !.daily_start_time = utcnow]
    ELSE r

\* [p for p in positions if float(p['positionAmt']) != 0]
ActivePositions(positions) == SelectSeq(positions, LAMBDA p : p.positionAmt # 0)

\* next((p for p in positions if p['symbol'] == symbol and amt != 0), None) is not None
ExistingPosition(positions, symbol) ==
    \E i \in 1..Len(positions) :
        positions[i].symbol = symbol /\ positions[i].positionAmt # 0

\* min(position_strengths.items(), key=lambda x: abs(x[1])): the first item, in
\* dict order, of least |strength|; position_strengths is not empty
WeakestSymbol(position_strengths) ==
    position_strengths[
        CHOOSE i \in 1..Len(position_strengths) :
            /\ \A j \in 1..Len(position_strengths) :
                   Abs(position_strengths[i][2]) <= Abs(position_strengths[j][2])
            /\ \A j \in 1..(i - 1) :
                   Abs(position_strengths[j][2]) > Abs(position_strengths[i][2])][1]

\* the displacement test with a non-strict comparison
DisplacesAtLeast(signal_strength, weakest_strength) ==
    signal_strength * 10 >= weakest_strength * 12

\* signal_strength > weakest_strength * 1.2
Displaces(signal_strength, weakest_strength) ==
    signal_strength * 10 > weakest_strength * 12

\* signal.get('atr', 0) / signal.get('price', 1) > 0.05
TooVolatile(signal) == signal.atr * 20 > signal.price

\* what the except clause of can_trade returns (lines 94-96)
CanTradeError == [result |-> FALSE, reason |-> "error", alerted |-> FALSE]

\* can_trade from the capacity check on (lines 52-92); r is the state after
\* reset_daily_stats
CanTradeTail(r, utcnow, symbol, signal, positions) ==
    IF "pairs" \notin r.config THEN CanTradeError
    ELSE IF Len(ActivePositions(positions)) >= MaxConcurrentPositions
    THEN IF /\ r.position_strengths # <<>>
            /\ Displaces(Abs(signal.strength),
                         Abs(DictGet(r.position_strengths,
                                     WeakestSymbol(r.position_strengths))))
         THEN [result |-> TRUE, reason |-> "replace", alerted |-> FALSE]
         ELSE [result |-> FALSE, reason |-> "max_positions", alerted |-> FALSE]
    ELSE IF TooVolatile(signal)
    THEN [result |-> FALSE, reason |-> "volatility", alerted |-> FALSE]
    ELSE IF utcnow - (IF DictHas(r.last_trade_time, symbol)
                      THEN DictGet(r.last_trade_time, symbol) ELSE 0)
                < TradeCooldownSec
    THEN [result |-> FALSE, reason |-> "cooldown", alerted |-> FALSE]
    ELSE [result |-> TRUE, reason |-> "ok", alerted |-> FALSE]

\* can_trade with the daily loss check dropped
CanTradeNoLossCheck(r, utcnow, symbol, signal, response, notifier_ok) ==
    IF response.raises
    THEN CanTradeError
    ELSE IF ExistingPosition(response.positions, symbol)
    THEN [result |-> FALSE, reason |-> "existing", alerted |-> FALSE]
    ELSE IF "strategy" \notin r.config THEN CanTradeError
    ELSE IF Abs(signal.strength) < MinSignalStrength
    THEN [result |-> FALSE, reason |-> "strength", alerted |-> FALSE]
    ELSE IF "risk" \notin r.config THEN CanTradeError
    ELSE CanTradeTail(r, utcnow, symbol, signal, response.positions)

\* can_trade whose except clause lets the trade through
CanTradeFailOpen(r, utcnow, symbol, signal, response, notifier_ok) ==
    IF response.raises
    THEN [result |-> TRUE, reason |-> "error", alerted |-> FALSE]
    ELSE IF ExistingPosition(response.positions, symbol)
    THEN [result |-> FALSE, reason |-> "existing", alerted |-> FALSE]
    ELSE IF "strategy" \notin r.config
    THEN [result |-> TRUE, reason |-> "error", alerted |-> FALSE]
    ELSE IF Abs(signal.strength) < MinSignalStrength
    THEN [result |-> FALSE, reason |-> "strength", alerted |-> FALSE]
    ELSE IF "risk" \notin r.config
    THEN [result |-> TRUE, reason |-> "error", alerted |-> FALSE]
    ELSE IF r.daily_pnl < -MaxDailyLoss
    THEN IF notifier_ok
         THEN [result |-> FALSE, reason |-> "daily_loss", alerted |-> TRUE]
         ELSE [result |-> TRUE, reason |-> "error", alerted |-> FALSE]
    ELSE CanTradeTail(r, utcnow, symbol, signal, response.positions)

\* what can_trade returns, which return statement decided it, and whether the
\* daily-loss alert was sent; r is the state after reset_daily_stats, response
\* what get_position_risk answered, notifier_ok whether send_alert returns
CanTradeResult(r, utcnow, symbol, signal, response, notifier_ok) ==
    IF response.raises
    THEN CanTradeError
    ELSE IF ExistingPosition(response.positions, symbol)
    THEN [result |-> FALSE, reason |-> "existing", alerted |-> FALSE]
    ELSE IF "strategy" \notin r.config THEN CanTradeError
    ELSE IF Abs(signal.strength) < MinSignalStrength
    THEN [result |-> FALSE, reason |-> "strength", alerted |-> FALSE]
    ELSE IF "risk" \notin r.config THEN CanTradeError
    ELSE IF r.daily_pnl < -MaxDailyLoss
    THEN IF notifier_ok
         THEN [result |-> FALSE, reason |-> "daily_loss", alerted |-> TRUE]
         ELSE CanTradeError
    ELSE CanTradeTail(r, utcnow, symbol, signal, response.positions)

\* can_trade: the state reset_daily_stats leaves and what is returned
can_trade(r, utcnow, symbol, signal, response, notifier_ok) ==
    [risk |-> reset_daily_stats(r, utcnow),
     outcome |-> CanTradeResult(reset_daily_stats(r, utcnow), utcnow, symbol, signal,
                                response, notifier_ok)]

\* update_trade_outcome(symbol, pnl, signal_strength=None)
update_trade_outcome(r, utcnow, symbol, pnl, signal_strength) ==
    [r EXCEPT
        !.daily_pnl = r.daily_pnl + pnl,
        !.last_trade_time = DictSet(r.last_trade_time, symbol, utcnow),
        !.position_strengths =
            IF signal_strength # None
            THEN DictSet(r.position_strengths, symbol, signal_strength)
            ELSE r.position_strengths,
        !.trade_history_len = r.trade_history_len + 1]

(***************************************************************************)
(* SpecRisk: a RiskManagement object under can_trade and                   *)
(* update_trade_outcome calls at the instants of a time grid.              *)
(***************************************************************************)
MaxTrades == 2    \* update_trade_outcome calls the risk specification explores

Instants == {StartTime + d : d \in {0, 59, 60, DaySeconds + 1}}

RiskSignals ==
    [strength : {300, -350, 480, 481},
     atr : {Micro, 6 * Micro},
     price : {100 * Micro}]

\* what get_position_risk answers: it raises, or returns a snapshot
RiskSnapshots ==
    {<<[symbol |-> "BTCUSDT", positionAmt |-> a], [symbol |-> "ETHUSDT", positionAmt |-> b]>> :
        a \in {0, 1}, b \in {0, -1}}

RiskResponses ==
    {[raises |-> TRUE, positions |-> <<>>]}
        \cup {[raises |-> FALSE, positions |-> snapshot] : snapshot \in RiskSnapshots}

PnlInputs == {-5}
StrengthInputs == {None, 400, -500}

riskFrame == <<tracker, om_tracker, exchange, po, guard, bot, monitor>>

\* configurations: complete, or lacking one of the sections
RiskConfigs == {ConfigSections} \cup {ConfigSections \ {k} : k \in ConfigSections}

InitRisk ==
    /\ risk \in {[NewRisk(StartTime) EXCEPT !.config = c] : c \in RiskConfigs}
    /\ now = StartTime
    /\ tracker = Idle
    /\ om_tracker = Idle
    /\ exchange = Idle
    /\ po = Idle
    /\ guard = Idle
    /\ bot = Idle
    /\ monitor = Idle
    /\ last = Idle

RiskCanTrade(symbol, signal, response, notifier_ok) ==
    LET call == can_trade(risk, now, symbol, signal, response, notifier_ok)
    IN /\ risk' = call.risk
       /\ last' = [op |-> "can_trade",
                   result |-> call.outcome.result,
                   reason |-> call.outcome.reason,
                   alerted |-> call.outcome.alerted]
       /\ UNCHANGED <<now, riskFrame>>

RiskUpdate(symbol, pnl, signal_strength) ==
    /\ risk.trade_history_len < MaxTrades
    /\ risk' = update_trade_outcome(risk, now, symbol, pnl, signal_strength)
    /\ last' = [op |-> "update_trade_outcome"]
    /\ UNCHANGED <<now, riskFrame>>

RiskTick(t) ==
    /\ t > now
    /\ now' = t
    /\ last' = [op |-> "tick"]
    /\ UNCHANGED <<risk, riskFrame>>

NextRisk ==
    \/ \E symbol \in Symbols, signal \in RiskSignals, response \in RiskResponses,
          notifier_ok \in BOOLEAN :
           RiskCanTrade(symbol, signal, response, notifier_ok)
    \/ \E symbol \in Symbols, pnl \in PnlInputs, signal_strength \in StrengthInputs :
           RiskUpdate(symbol, pnl, signal_strength)
    \/ \E t \in Instants : RiskTick(t)

SpecRisk == InitRisk /\ [][NextRisk]_vars

(***************************************************************************)
(* C10: can_trade returns true only if the fetched snapshot has no nonzero *)
(* position for the symbol, |signal.strength| is at least the minimum      *)
(* strength and daily_pnl is at least -max_daily_loss; the three checks    *)
(* run in that order and the first failing one decides: an existing        *)
(* position or a weak signal returns false before the daily-loss check     *)
(* (no daily-loss alert is sent), and a breached daily-loss limit returns  *)
(* false after attempting the alert.  Stated for every call the object     *)
(* can receive in the current state.                                       *)
(***************************************************************************)
C10_CallChecks(symbol, signal, response, notifier_ok) ==
    LET call == can_trade(risk, now, symbol, signal, response, notifier_ok)
        out == call.outcome
        fetched == ~response.raises
        existing == fetched /\ ExistingPosition(response.positions, symbol)
        weak == Abs(signal.strength) < MinSignalStrength
        loss == call.risk.daily_pnl < -MaxDailyLoss
        configured == ConfigSections \subseteq risk.config
    IN /\ out.result => fetched /\ ~existing /\ ~weak /\ ~loss
       /\ existing => ~out.result /\ out.reason = "existing" /\ ~out.alerted
       /\ fetched /\ ~existing /\ weak =>
              ~out.result /\ ~out.alerted /\ (configured => out.reason = "strength")
       /\ fetched /\ ~existing /\ ~weak /\ loss =>
              ~out.result /\ (configured => (out.alerted <=> notifier_ok))

C10_CanTradeOnlyIf ==
    \A symbol \in Symbols, signal \in RiskSignals, response \in RiskResponses,
       notifier_ok \in BOOLEAN :
        C10_CallChecks(symbol, signal, response, notifier_ok)

\* can_trade has returned true with daily_pnl exactly at the limit
C10_Witness ==
    /\ last.op = "can_trade"
    /\ last.result
    /\ risk.daily_pnl = -MaxDailyLoss

(***************************************************************************)
(* C11: at capacity (the snapshot has at least max_concurrent_positions    *)
(* nonzero positions) with weakest tracked |strength| w, a call that has   *)
(* passed the existing-position, minimum-strength and daily-loss checks is *)
(* admitted exactly when |strength| > 1.2 * w, strictly: with w = 0.400 a  *)
(* strength of 0.480 is rejected and 0.481 is admitted.  Strengths are in  *)
(* units of 10^-3, so the test is 10 * |strength| > 12 * w.                *)
(***************************************************************************)
WeakestStrength(r) ==
    CHOOSE w \in {Abs(r.position_strengths[i][2]) : i \in 1..Len(r.position_strengths)} :
        \A i \in 1..Len(r.position_strengths) : w <= Abs(r.position_strengths[i][2])

AtCapacity(response) ==
    /\ ~response.raises
    /\ Len(ActivePositions(response.positions)) >= MaxConcurrentPositions

PassesFirstChecks(r, symbol, signal, response) ==
    /\ ConfigSections \subseteq r.config
    /\ ~response.raises
    /\ ~ExistingPosition(response.positions, symbol)
    /\ Abs(signal.strength) >= MinSignalStrength
    /\ r.daily_pnl >= -MaxDailyLoss

C11_CallChecks(symbol, signal, response, notifier_ok) ==
    LET call == can_trade(risk, now, symbol, signal, response, notifier_ok)
    IN (/\ AtCapacity(response)
        /\ call.risk.position_strengths # <<>>
        /\ PassesFirstChecks(call.risk, symbol, signal, response))
       => (call.outcome.result
              <=> Abs(signal.strength) * 10 > WeakestStrength(call.risk) * 12)

C11_DisplacementThreshold ==
    \A symbol \in Symbols, signal \in RiskSignals, response \in RiskResponses,
       notifier_ok \in BOOLEAN :
        C11_CallChecks(symbol, signal, response, notifier_ok)

\* a signal has displaced a weakest strength of 0.400: of the strengths
\* offered only 0.481 can
C11_Witness ==
    /\ last.op = "can_trade"
    /\ last.result
    /\ last.reason = "replace"
    /\ risk.position_strengths # <<>>
    /\ WeakestStrength(risk) = 400

(***************************************************************************)
(* C35 (as claimed): in the capacity check of can_trade the symbol chosen  *)
(* as weakest has a nonzero position in the fetched snapshot, for          *)
(* position_strengths holds entries only for symbols that are open.        *)
(***************************************************************************)
C35_CallChecks(symbol, signal, response) ==
    (/\ AtCapacity(response)
     /\ risk.position_strengths # <<>>
     /\ PassesFirstChecks(risk, symbol, signal, response))
    => ExistingPosition(response.positions, WeakestSymbol(risk.position_strengths))

C35_AsClaimed ==
    \A symbol \in Symbols, signal \in RiskSignals, response \in RiskResponses :
        C35_CallChecks(symbol, signal, response)

(***************************************************************************)
(* The exchange as BinanceClient sees it.  A failed request raises         *)
(* Exception("API Error <status>: <body>") (binance_client.py:71-73); an   *)
(* exception message is the sequence of the fragments it was built from.   *)
(***************************************************************************)
ImmediateTrigger == "API Error 400: {'code': -2021, 'msg': 'Order would immediately trigger.'}"
MaxStopOrders == "API Error 400: {'code': -4045, 'msg': 'Reach max stop order limit.'}"
MarginInsufficient == "API Error 400: {'code': -2019, 'msg': 'Margin is insufficient.'}"
RequestFailed == "API Error 503: {'code': -1001, 'msg': 'Internal error; unable to process your request.'}"
NoExecution == "No execution confirmed"

EntryRejections == {MarginInsufficient, ImmediateTrigger}
BracketRejections == {ImmediateTrigger, MaxStopOrders}

\* a test that finds the text in no message
never_immediate_trigger(error) == FALSE

\* "Order would immediately trigger" in str(e)
has_immediate_trigger(error) == \E i \in 1..Len(error) : error[i] = ImmediateTrigger

SymbolPricePrecision == 2      \* symbol_data.get('price_precision', 2)
SymbolQuantityPrecision == 3   \* symbol_data.get('quantity_precision', 3)

\* f"{float(quantity):.{quantity_precision}f}"
format_quantity(x) == round_to(x, SymbolQuantityPrecision)

Opposite(side) == IF side = "BUY" THEN "SELL" ELSE "BUY"

\* the side that closes a position of the given amount
ClosingSide(amt) == IF amt > 0 THEN "SELL" ELSE "BUY"

NoOrder == [type |-> "none"]

\* the request create_order sends; reduceOnly is str() of the keyword
\* argument the caller passed, "absent" when it passed none
create_order(symbol, side, quantity, order_type, stopPrice, reduceOnly) ==
    [type |-> order_type, symbol |-> symbol, side |-> side,
     quantity |-> format_quantity(quantity),
     stopPrice |-> IF stopPrice = None THEN None
                   ELSE format_price(stopPrice, SymbolPricePrecision),
     reduceOnly |-> reduceOnly]

\* the exchange treats the order as reduce-only
IsReduceOnly(order) == order.reduceOnly \in {"True", "true"}

\* the position amount once the exchange has filled a MARKET order: a
\* reduce-only order takes the position towards 0 and never across it
AfterFill(amt, order) ==
    LET d == IF order.side = "BUY" THEN order.quantity ELSE -order.quantity
    IN IF ~IsReduceOnly(order) THEN amt + d
       ELSE IF (amt > 0 /\ d < 0) \/ (amt < 0 /\ d > 0)
            THEN (IF Abs(d) >= Abs(amt) THEN 0 ELSE amt + d)
            ELSE amt

(***************************************************************************)
(* OrderManager.place_order (src/exchange/order_manager.py:16-61) as a     *)
(* transition system over its activation record st: pc is the request the  *)
(* call makes next, amt the exchange's position amount for the symbol,     *)
(* open_sl and open_tp count the bracket orders the exchange accepted for  *)
(* this call and has not cancelled, order is the last order sent,          *)
(* entry_trigger_rejected whether an entry attempt was rejected with the   *)
(* "Order would immediately trigger" message, notified whether the failure *)
(* message was sent, orders_verified whether the open-orders query of the  *)
(* first _place_sl_tp_orders (lines 145-155) was made: the definition in   *)
(* force (lines 285-341) makes none.  Each operator gives the set of       *)
(* records one step can lead to, one per answer of the exchange.           *)
(***************************************************************************)
PlaceStart(signal, amt) ==
    [pc |-> "check", signal |-> signal, amt |-> amt,
     entry_attempt |-> 0, entry_check |-> "none", executed |-> 0, avg_price |-> None,
     current_price |-> None, price_precision |-> None,
     attempt |-> 0, sl_price |-> None, tps |-> <<>>, k |-> 0,
     open_sl |-> 0, open_tp |-> 0, placed |-> FALSE, recorded |-> FALSE,
     cancel_issued |-> FALSE, flatten_attempted |-> FALSE,
     entry_trigger_rejected |-> FALSE, notified |-> FALSE, orders_verified |-> FALSE,
     alert |-> "none", error |-> <<>>, order |-> NoOrder, result |-> "pending"]

\* an exception reaches place_order's except clause (line 56)
Raise(st, error) == [st EXCEPT !.pc = "except", !.error = error]

\* lines 63-79
check_existing_position(st) ==
    LET close == create_order(st.signal.symbol, ClosingSide(st.amt), Abs(st.amt),
                              "MARKET", None, "True")
    IN {Raise(st, <<RequestFailed>>)}
       \cup (IF st.amt = 0
             THEN {[st EXCEPT !.pc = "entry"]}
             ELSE {[st EXCEPT !.pc = "entry", !.order = close,
                              !.amt = AfterFill(st.amt, close)],
                   Raise([st EXCEPT !.order = close], <<RequestFailed>>)})

\* lines 108-111: the except clause of one attempt of _execute_market_order
EntryFailed(st, error) ==
    LET seen == [st EXCEPT !.entry_trigger_rejected =
                               @ \/ \E i \in 1..Len(error) : error[i] = ImmediateTrigger]
    IN IF st.entry_attempt = 2
       THEN Raise(seen, <<"Order failed after retries: ">> \o error)
       ELSE [seen EXCEPT !.entry_attempt = @ + 1]

\* an attempt that is declared failed on a response with zero executed
\* quantity, without asking get_order
execute_market_order_no_requery(st) ==
    LET order == create_order(st.signal.symbol, st.signal.signal, st.signal.size,
                              "MARKET", None, "absent")
        sent == [st EXCEPT !.order = order]
        filled == [sent EXCEPT !.amt = AfterFill(st.amt, order)]
    IN {[filled EXCEPT !.pc = "avg", !.executed = order.quantity,
                       !.entry_check = "response"]}
       \cup {EntryFailed([sent EXCEPT !.entry_check = "create_order_raised"], <<m>>) :
                 m \in EntryRejections \cup {RequestFailed}}
       \cup {EntryFailed([sent EXCEPT !.entry_check = "response"], <<NoExecution>>)}

\* lines 81-111, one attempt.  entry_check tells how the attempt was decided:
\* create_order raised (the order rejected or the request failed); the
\* response showed an executed quantity > 0 ("response"); it showed zero and
\* get_order was asked, which showed an executed quantity > 0 ("get_order"),
\* showed zero too ("unconfirmed"), or raised, the order filled by then or
\* not ("get_order_raised")
execute_market_order(st) ==
    LET order == create_order(st.signal.symbol, st.signal.signal, st.signal.size,
                              "MARKET", None, "absent")
        sent == [st EXCEPT !.order = order]
        filled == [sent EXCEPT !.amt = AfterFill(st.amt, order)]
    IN {[filled EXCEPT !.pc = "avg", !.executed = order.quantity, !.entry_check = c] :
           c \in {"response", "get_order"}}
       \cup {EntryFailed([sent EXCEPT !.entry_check = "create_order_raised"], <<m>>) :
                 m \in EntryRejections \cup {RequestFailed}}
       \cup {EntryFailed([sent EXCEPT !.entry_check = "unconfirmed"], <<NoExecution>>)}
       \cup {EntryFailed([sent EXCEPT !.entry_check = "get_order_raised"],
                         <<RequestFailed>>),
             EntryFailed([filled EXCEPT !.entry_check = "get_order_raised"],
                         <<RequestFailed>>)}

\* the prices get_klines may report as the last close
PlacePrices == {EntryPrice}

\* lines 36-38 and 261-283: the fill price from the order or the position,
\* else the last close
fill_price(st) ==
    {[st EXCEPT !.pc = "guard", !.avg_price = EntryPrice]}
        \cup {[st EXCEPT !.pc = "guard", !.avg_price = p] : p \in PlacePrices}
        \cup {Raise(st, <<RequestFailed>>)}

\* get_precision: the LOT_SIZE step's decimals, 8 without a LOT_SIZE filter
PlacePrecisions == {2, 8}

\* lines 285-335: the price guard
place_sl_tp_orders(st) ==
    {Raise(st, <<RequestFailed>>)}
        \cup {[st EXCEPT
                  !.pc = "brackets", !.current_price = cp, !.price_precision = pr,
                  !.attempt = 0, !.k = 0,
                  !.sl_price = round_to(guard_sl(st.signal.signal, st.signal.stop_loss, cp), pr),
                  !.tps = adjusted_tps(st.signal.signal, st.signal.take_profits, cp, pr)] :
              cp \in PlacePrices, pr \in PlacePrecisions}

\* a retry that leaves the price as it was
NoNudge(side, x) == x

\* x * 1.001 for BUY, x * 0.999 for SELL (to 10^-6)
Nudge(side, x) == IF side = "BUY" THEN x + x \div 1000 ELSE x - x \div 1000

\* a retry loop that sends every take-profit for the full quantity
BracketOrderFull(st) ==
    IF st.k = 0
    THEN create_order(st.signal.symbol, Opposite(st.signal.signal),
                      round_to(st.executed, st.price_precision),
                      "STOP_MARKET", st.sl_price, "true")
    ELSE create_order(st.signal.symbol, Opposite(st.signal.signal),
                      round_to(st.executed, st.price_precision),
                      "TAKE_PROFIT_MARKET", st.tps[st.k].price, "true")

\* the bracket order the retry loop sends next: the stop-loss when k = 0,
\* else the k-th take-profit (lines 348-366)
BracketOrder(st) ==
    IF st.k = 0
    THEN create_order(st.signal.symbol, Opposite(st.signal.signal),
                      round_to(st.executed, st.price_precision),
                      "STOP_MARKET", st.sl_price, "true")
    ELSE create_order(st.signal.symbol, Opposite(st.signal.signal),
                      round_to((st.executed * st.tps[st.k].percentage) \div 100,
                               st.price_precision),
                      "TAKE_PROFIT_MARKET", st.tps[st.k].price, "true")

\* lines 370-380: the except clause of one attempt of _place_orders_with_retry
BracketFailed(st, error) ==
    IF st.attempt = 2
    THEN Raise(st, error)
    ELSE [st EXCEPT
             !.attempt = @ + 1, !.k = 0,
             !.sl_price = round_to(Nudge(st.signal.signal, @), st.price_precision),
             !.tps = [i \in 1..Len(st.tps) |->
                         [price |-> round_to(Nudge(st.signal.signal, st.tps[i].price),
                                             st.price_precision),
                          percentage |-> st.tps[i].percentage]]]

\* lines 343-380, one order of one attempt
place_orders_with_retry(st) ==
    LET sent == [st EXCEPT !.order = BracketOrder(st)]
        accepted == [sent EXCEPT !.k = @ + 1,
                                 !.open_sl = IF st.k = 0 THEN @ + 1 ELSE @,
                                 !.open_tp = IF st.k = 0 THEN @ ELSE @ + 1]
    IN {IF st.k = Len(st.tps)
        THEN [accepted EXCEPT !.pc = "record", !.placed = TRUE]
        ELSE accepted}
       \cup {BracketFailed(sent, <<m>>) : m \in BracketRejections}

\* lines 157-168: the position _record_position hands to add_position
PlacedPosition(st, utcnow) ==
    [symbol |-> st.signal.symbol,
     side |-> st.signal.signal,
     quantity |-> st.executed,
     entry_price |-> st.avg_price,
     entry_time |-> utcnow,
     stop_loss |-> st.signal.stop_loss,
     take_profits |-> st.signal.take_profits]

\* the error text Notifier.send_message logs (notifier.py:70-71)
TelegramSendError == "Telegram send error"

\* a trade alert whose failure reaches place_order's except clause
record_position_alert_raises(st) ==
    {[st EXCEPT !.pc = "done", !.recorded = TRUE, !.alert = "sent", !.result = "order"],
     Raise([st EXCEPT !.recorded = TRUE, !.alert = "failed"], <<TelegramSendError>>)}

\* lines 50-54: record, alert, return order.  _send_trade_alert (lines
\* 170-182) hands the message to Notifier.send_message, which catches and
\* logs every error of the request (notifier.py:53-71)
record_position(st) ==
    {[st EXCEPT !.pc = "done", !.recorded = TRUE, !.alert = a, !.result = "order"] :
        a \in {"sent", "failed"}}

\* lines 57-59
return_none(st) == {[st EXCEPT !.pc = "done", !.result = "none"]}

\* lines 60-61 and 184-212: cancel_all_orders raises; get_position_risk
\* raises; no position is left; the flattening order is accepted or rejected;
\* then the failure message is sent (lines 209-212)
handle_failure(st) ==
    LET failed == [st EXCEPT !.pc = "done", !.result = "raised", !.cancel_issued = TRUE,
                             !.notified = TRUE]
        cancelled == [failed EXCEPT !.open_sl = 0, !.open_tp = 0]
        flatten == create_order(st.signal.symbol, ClosingSide(st.amt), Abs(st.amt),
                                "MARKET", None, "True")
        attempted == [cancelled EXCEPT !.flatten_attempted = TRUE, !.order = flatten]
    IN {failed, cancelled}
       \cup (IF st.amt = 0
             THEN {}
             ELSE {attempted, [attempted EXCEPT !.amt = AfterFill(st.amt, flatten)]})

\* every step of the call
PlaceSucc(st) ==
    CASE st.pc = "check" -> check_existing_position(st)
      [] st.pc = "entry" -> execute_market_order(st)
      [] st.pc = "avg" -> fill_price(st)
      [] st.pc = "guard" -> place_sl_tp_orders(st)
      [] st.pc = "brackets" -> place_orders_with_retry(st)
      [] st.pc = "record" -> record_position(st)
      [] st.pc = "except" ->
            IF has_immediate_trigger(st.error) THEN return_none(st) ELSE handle_failure(st)
      [] OTHER -> {}

(***************************************************************************)
(* SpecPlace: one place_order call on an OrderManager whose ledger is      *)
(* empty or holds a position an earlier call recorded; the exchange holds  *)
(* no position for the symbol, or a long or a short one.                   *)
(***************************************************************************)
TakeProfits(side, n) ==
    [i \in 1..n |->
        [price |-> IF side = "BUY" THEN EntryPrice + i * Micro ELSE EntryPrice - i * Micro,
         percentage |-> 100 \div n]]

\* signals of CoreStrategy.analyze_market as place_order reads them: the
\* stop-loss on the loss side of the entry, the take-profits on the other
\* the sizes are multiples of the lot step (validate_quantity, main.py:192):
\* 1.0 split in one or two targets, 0.03 split in three targets of 33 %
PlaceSizes == {<<Micro, 1>>, <<Micro, 2>>, <<30000, 3>>}

PlaceSignals(symbol) ==
    {[symbol |-> symbol, signal |-> side, size |-> sz[1],
      stop_loss |-> IF side = "BUY" THEN EntryPrice - sd ELSE EntryPrice + sd,
      take_profits |-> TakeProfits(side, sz[2])] :
        side \in Sides, sd \in {Cents(3), Cents(100)}, sz \in PlaceSizes}

EarlierPosition ==
    [symbol |-> "BTCUSDT", side |-> "SELL", quantity |-> Micro,
     entry_price |-> EntryPrice, entry_time |-> 0,
     stop_loss |-> EntryPrice + Micro,
     take_profits |-> TakeProfits("SELL", 1)]

placeFrame == <<tracker, exchange, guard, bot, monitor, risk, now>>

InitPlace ==
    /\ po = [pc |-> "idle"]
    /\ om_tracker \in {NewTracker, add_position(NewTracker, EarlierPosition)}
    /\ tracker = Idle
    /\ exchange = Idle
    /\ guard = Idle
    /\ bot = Idle
    /\ monitor = Idle
    /\ risk = Idle
    /\ now = 0
    /\ last = Idle

PlaceCall(signal, amt) ==
    /\ po.pc = "idle"
    /\ po' = PlaceStart(signal, amt)
    /\ last' = [op |-> "place_order"]
    /\ UNCHANGED <<om_tracker, placeFrame>>

PlaceCheckExisting ==
    /\ po.pc = "check"
    /\ po' \in check_existing_position(po)
    /\ last' = [op |-> "_check_existing_position"]
    /\ UNCHANGED <<om_tracker, placeFrame>>

PlaceEntry ==
    /\ po.pc = "entry"
    /\ po' \in execute_market_order(po)
    /\ last' = [op |-> "_execute_market_order"]
    /\ UNCHANGED <<om_tracker, placeFrame>>

PlaceFillPrice ==
    /\ po.pc = "avg"
    /\ po' \in fill_price(po)
    /\ last' = [op |-> "_calculate_avg_fill_price"]
    /\ UNCHANGED <<om_tracker, placeFrame>>

PlaceGuard ==
    /\ po.pc = "guard"
    /\ po' \in place_sl_tp_orders(po)
    /\ last' = [op |-> "_place_sl_tp_orders"]
    /\ UNCHANGED <<om_tracker, placeFrame>>

PlaceBracket ==
    /\ po.pc = "brackets"
    /\ po' \in place_orders_with_retry(po)
    /\ last' = [op |-> "_place_orders_with_retry"]
    /\ UNCHANGED <<om_tracker, placeFrame>>

PlaceRecord ==
    /\ po.pc = "record"
    /\ po' \in record_position(po)
    /\ om_tracker' = add_position(om_tracker, PlacedPosition(po, now))
    /\ last' = [op |-> "_record_position"]
    /\ UNCHANGED placeFrame

PlaceReturnNone ==
    /\ po.pc = "except"
    /\ has_immediate_trigger(po.error)
    /\ po' \in return_none(po)
    /\ last' = [op |-> "return_none"]
    /\ UNCHANGED <<om_tracker, placeFrame>>

PlaceHandleFailure ==
    /\ po.pc = "except"
    /\ ~has_immediate_trigger(po.error)
    /\ po' \in handle_failure(po)
    /\ last' = [op |-> "_handle_failure"]
    /\ UNCHANGED <<om_tracker, placeFrame>>

NextPlace ==
    \/ \E signal \in PlaceSignals("BTCUSDT"), amt \in PositionAmts : PlaceCall(signal, amt)
    \/ PlaceCheckExisting
    \/ PlaceEntry
    \/ PlaceFillPrice
    \/ PlaceGuard
    \/ PlaceBracket
    \/ PlaceRecord
    \/ PlaceReturnNone
    \/ PlaceHandleFailure

SpecPlace == InitPlace /\ [][NextPlace]_vars

(***************************************************************************)
(* C4, as claimed.  Whenever a place_order call has finished (returned an  *)
(* order, returned None or raised) after its entry order was filled,       *)
(* either the stop-loss and every take-profit order were placed, or the    *)
(* rollback was performed: cancel-all was issued for the symbol and a      *)
(* reduce-only flattening market order was attempted.                      *)
(***************************************************************************)
C4_AsClaimed ==
    (po.pc = "done" /\ po.executed > 0) =>
        \/ po.placed
        \/ po.cancel_issued /\ po.flatten_attempted

(***************************************************************************)
(* C16 (as claimed): when an entry order of the call was rejected with a   *)
(* message containing "Order would immediately trigger", place_order       *)
(* returns null without raising, performs no rollback, sends no failure    *)
(* notification, places no bracket order and records no position.          *)
(***************************************************************************)
InitialLedgers == {NewTracker, add_position(NewTracker, EarlierPosition)}

\* what the claim says of a deferred call
DeferredQuietly ==
    /\ po.result = "none"
    /\ ~po.cancel_issued /\ ~po.flatten_attempted
    /\ ~po.notified
    /\ po.sl_price = None /\ po.open_sl = 0 /\ po.open_tp = 0 /\ ~po.placed
    /\ po.order.type = "MARKET"
    /\ ~po.recorded /\ om_tracker \in InitialLedgers

C16_AsClaimed ==
    (po.pc = "done" /\ po.entry_trigger_rejected) => DeferredQuietly

(***************************************************************************)
(* C16 (amended): when the third and last entry attempt of the call was    *)
(* rejected with a message containing "Order would immediately trigger",   *)
(* the earlier two having failed as well, place_order returns null without *)
(* raising, performs no rollback, sends no failure notification, places no *)
(* bracket order and records no position.                                  *)
(***************************************************************************)
EntryDeferred ==
    /\ po.pc = "done"
    /\ po.error = <<"Order failed after retries: ", ImmediateTrigger>>

C16_Deferral == EntryDeferred => DeferredQuietly

C16_Witness ==
    /\ EntryDeferred
    /\ po.entry_attempt = 2
    /\ po.result = "none"

(***************************************************************************)
(* C17 (as claimed): whenever place_order returns a filled order, the      *)
(* OrderManager's ledger holds an open position for the signal's symbol    *)
(* whose side is the signal's side and whose quantity is the executed      *)
(* quantity of the order.                                                  *)
(***************************************************************************)
C17_AsClaimed ==
    (po.pc = "done" /\ po.result = "order") =>
        /\ has_position(om_tracker, po.signal.symbol)
        /\ get_position(om_tracker, po.signal.symbol).side = po.signal.signal
        /\ get_position(om_tracker, po.signal.symbol).quantity = po.executed

(***************************************************************************)
(* C18: the bracket retry loop.  RetryStep is a step of the loop that      *)
(* starts the next attempt, FailStep one that raises out of it.            *)
(***************************************************************************)
RetryStep ==
    /\ po.pc = "brackets" /\ po'.pc = "brackets"
    /\ po'.attempt # po.attempt

FailStep == po.pc = "brackets" /\ po'.pc = "except"

\* x * 1.001 for BUY, x * 0.999 for SELL, in units of 10^-6
TimesFactor(side, x) == IF side = "BUY" THEN x + x \div 1000 ELSE x - x \div 1000

\* at most three attempts, no order after the attempt that placed them all,
\* and a raise only out of the third attempt
RetryCap ==
    /\ po.pc = "brackets" => po.attempt \in 0..2 /\ ~po.placed
    /\ po.pc = "brackets" /\ po'.pc = "record" =>
           po'.placed /\ po'.open_sl >= 1 /\ po'.open_tp >= Len(po.tps)
    /\ po.pc = "record" => po'.pc \in {"record", "done"}
    /\ RetryStep => po'.attempt = po.attempt + 1 /\ po'.k = 0
    /\ FailStep => po.attempt = 2

(***************************************************************************)
(* C18 (as claimed): at most 3 attempts, stopping at the first in which    *)
(* the stop-loss and every take-profit are accepted, raising after exactly *)
(* 3 failed attempts; the prices of attempt k+1 are those of attempt k     *)
(* multiplied by 1.001 (BUY) or 0.999 (SELL).                              *)
(***************************************************************************)
C18_AsClaimedStep ==
    /\ RetryCap
    /\ RetryStep =>
           /\ po'.sl_price = TimesFactor(po.signal.signal, po.sl_price)
           /\ \A i \in 1..Len(po.tps) :
                  po'.tps[i].price = TimesFactor(po.signal.signal, po.tps[i].price)

C18_AsClaimed == [][C18_AsClaimedStep]_vars

(***************************************************************************)
(* C18 (amended): as claimed, except that the prices of attempt k+1 are    *)
(* those of attempt k multiplied by 1.001 (BUY) or 0.999 (SELL) and then   *)
(* rounded to the number of decimals get_precision returned.               *)
(***************************************************************************)
C18_AmendedStep ==
    /\ RetryCap
    /\ RetryStep =>
           /\ po'.sl_price =
                  round_to(TimesFactor(po.signal.signal, po.sl_price), po.price_precision)
           /\ \A i \in 1..Len(po.tps) :
                  po'.tps[i].price =
                      round_to(TimesFactor(po.signal.signal, po.tps[i].price),
                               po.price_precision)

C18_RetryCap == [][C18_AmendedStep]_vars

\* the third attempt has failed and the loop has raised
C18_Witness ==
    /\ po.pc = "except"
    /\ po.attempt = 2
    /\ po.sl_price # None
    /\ po.order.type \in {"STOP_MARKET", "TAKE_PROFIT_MARKET"}

(***************************************************************************)
(* C19 (as claimed): between two bracket placement attempts every price    *)
(* moves further from the market: for BUY the stop-loss of the next        *)
(* attempt is lower and each take-profit higher, for SELL the stop-loss is *)
(* higher and each take-profit lower.                                      *)
(***************************************************************************)
C19_AsClaimedStep ==
    RetryStep =>
        IF po.signal.signal = "BUY"
        THEN /\ po'.sl_price < po.sl_price
             /\ \A i \in 1..Len(po.tps) : po'.tps[i].price > po.tps[i].price
        ELSE /\ po'.sl_price > po.sl_price
             /\ \A i \in 1..Len(po.tps) : po'.tps[i].price < po.tps[i].price

C19_AsClaimed == [][C19_AsClaimedStep]_vars

(***************************************************************************)
(* C20 (as claimed): place_order returns a filled order only after an      *)
(* open-orders query made after bracket placement showed at least 1 + N    *)
(* bracket orders (N the number of take-profits).                          *)
(***************************************************************************)
C20_AsClaimed ==
    (po.pc = "done" /\ po.result = "order") =>
        /\ po.orders_verified
        /\ po.open_sl + po.open_tp >= 1 + Len(po.signal.take_profits)

(***************************************************************************)
(* C21 (as claimed): every bracket order place_order sends is reduce-only  *)
(* and on the side opposite to the entry; the stop-loss order is for the   *)
(* full executed quantity and the k-th take-profit order, sent on its own, *)
(* is for executed quantity * percentage / 100.                            *)
(***************************************************************************)
BracketSent == po.pc = "brackets" /\ last'.op = "_place_orders_with_retry"

BracketShape(order, k) ==
    /\ IsReduceOnly(order)
    /\ order.symbol = po.signal.symbol
    /\ order.side = Opposite(po.signal.signal)
    /\ order.type = IF k = 0 THEN "STOP_MARKET" ELSE "TAKE_PROFIT_MARKET"
    /\ k = 0 => order.quantity = po.executed

C21_AsClaimedStep ==
    BracketSent =>
        /\ BracketShape(po'.order, po.k)
        /\ po.k > 0 => po'.order.quantity * 100 = po.executed * po.tps[po.k].percentage

C21_AsClaimed == [][C21_AsClaimedStep]_vars

(***************************************************************************)
(* C21 (amended): as claimed, except that the quantity of a take-profit    *)
(* order is executed quantity * percentage / 100 rounded to get_precision  *)
(* decimals and then written with the symbol's quantity precision.         *)
(***************************************************************************)
C21_AmendedStep ==
    BracketSent =>
        /\ BracketShape(po'.order, po.k)
        /\ po.k > 0 =>
              po'.order.quantity =
                  format_quantity(round_to((po.executed * po.tps[po.k].percentage) \div 100,
                                           po.price_precision))

C21_BracketOrders == [][C21_AmendedStep]_vars

C21_Witness ==
    /\ po.pc \in {"brackets", "record"}
    /\ po.order.type = "TAKE_PROFIT_MARKET"
    /\ po.executed = 30000
    /\ po.order.quantity = 10000
    /\ po.order.side = Opposite(po.signal.signal)

(***************************************************************************)
(* C22: a Notifier failure never aborts a trading operation.  If sending   *)
(* the trade notification fails after the entry was filled, the brackets   *)
(* were placed and the position was recorded, place_order still returns    *)
(* the filled order, and neither cancels the symbol's orders nor flattens  *)
(* the position.                                                           *)
(***************************************************************************)
C22_AlertFailureHarmless ==
    (po.pc \in {"except", "done"} /\ po.alert = "failed") =>
        /\ po.pc = "done"
        /\ po.result = "order"
        /\ po.placed /\ po.recorded
        /\ ~po.cancel_issued
        /\ ~po.flatten_attempted
        /\ po.amt # 0
        /\ po.open_sl >= 1 /\ po.open_tp >= Len(po.signal.take_profits)

C22_Witness ==
    /\ po.pc = "done"
    /\ po.alert = "failed"
    /\ po.result = "order"
    /\ has_position(om_tracker, po.signal.symbol)

(***************************************************************************)
(* C37 (as claimed): no duplicate bracket orders.  Whenever bracket        *)
(* placement succeeds, possibly after retries, exactly one stop-loss order *)
(* and exactly one order per take-profit level of this call are open on    *)
(* the exchange; orders accepted during a failed attempt do not stay open. *)
(***************************************************************************)
C37_AsClaimed ==
    (po.pc = "record" /\ po.placed) =>
        /\ po.open_sl = 1
        /\ po.open_tp = Len(po.signal.take_profits)

(***************************************************************************)
(* C38 (as claimed): after a successful place_order the stop_loss and the  *)
(* take_profits recorded in the ledger position equal the stop price and   *)
(* the take-profit prices of the bracket orders the exchange accepted,     *)
(* after guard adjustment and retry nudging.                               *)
(***************************************************************************)
C38_AsClaimed ==
    (po.pc = "done" /\ po.result = "order") =>
        LET position == get_position(om_tracker, po.signal.symbol)
        IN /\ position.stop_loss = BracketOrder([po EXCEPT !.k = 0]).stopPrice
           /\ Len(position.take_profits) = Len(po.tps)
           /\ \A i \in 1..Len(po.tps) :
                  position.take_profits[i].price
                      = BracketOrder([po EXCEPT !.k = i]).stopPrice

(***************************************************************************)
(* C34: entry verification.  _execute_market_order returns only an order   *)
(* whose executed quantity is > 0; an attempt whose response showed zero   *)
(* executed quantity is declared failed only after get_order was asked     *)
(* once; a place_order call submits at most 3 entry orders, and the third  *)
(* failed attempt raises.                                                  *)
(***************************************************************************)
C34_Step ==
    (po.pc = "entry" /\ last'.op = "_execute_market_order") =>
        /\ po.entry_attempt \in 0..2
        /\ po'.order.type = "MARKET"
        /\ po'.pc = "avg" =>
              /\ po'.executed > 0
              /\ po'.entry_check \in {"response", "get_order"}
              /\ po'.entry_attempt = po.entry_attempt
        /\ po'.pc # "avg" =>
              /\ po'.entry_check \in
                     {"create_order_raised", "unconfirmed", "get_order_raised"}
              /\ po'.executed = 0
              /\ IF po.entry_attempt = 2
                 THEN /\ po'.pc = "except"
                      /\ po'.error[1] = "Order failed after retries: "
                      /\ po'.error[2] = NoExecution <=> po'.entry_check = "unconfirmed"
                 ELSE /\ po'.pc = "entry"
                      /\ po'.entry_attempt = po.entry_attempt + 1

C34_EntryVerification == [][C34_Step]_vars

\* the third attempt was left unconfirmed by the response and by get_order
C34_Witness ==
    /\ po.pc = "except"
    /\ po.entry_attempt = 2
    /\ po.entry_check = "unconfirmed"
    /\ po.error = <<"Order failed after retries: ", NoExecution>>
    /\ last.op = "_execute_market_order"

(***************************************************************************)
(* place_order from call to return: the records with pc = "done" the steps *)
(* can reach from a starting record.                                       *)
(***************************************************************************)
RECURSIVE PlaceRuns(_, _)
PlaceRuns(running, finished) ==
    IF running = {} THEN finished
    ELSE LET next == UNION {PlaceSucc(st) : st \in running}
         IN PlaceRuns({st \in next : st.pc # "done"},
                      finished \cup {st \in next : st.pc = "done"})

\* what a finished call leaves behind: what it returned, the exchange
\* position, and whether and what it recorded in the ledger
PlaceOutcome(st) ==
    [result |-> st.result, amt |-> st.amt, recorded |-> st.recorded,
     executed |-> st.executed, avg_price |-> st.avg_price, placed |-> st.placed]

place_order(signal, amt) ==
    {PlaceOutcome(st) : st \in PlaceRuns({PlaceStart(signal, amt)}, {})}

(***************************************************************************)
(* OrderManager.close_position (src/exchange/order_manager.py:439-495) and *)
(* the loop body of PositionMonitor.check_positions                        *)
(* (src/exchange/position_monitor.py:25-44).                               *)
(***************************************************************************)
\* the attributes OrderManager.__init__ sets (lines 9-14); no other code
\* assigns an attribute of the OrderManager
OrderManagerAttributes ==
    {"client", "config", "logger", "notifier", "active_orders", "position_tracker"}

\* a * b for decimals a, b that are multiples of 10^-3
MulMicro(a, b) == (a \div 1000) * (b \div 1000)

\* lines 548-552
calculate_pnl(position, exit_price) ==
    IF position.side = "BUY"
    THEN MulMicro(exit_price - position.entry_price, position.quantity)
    ELSE MulMicro(position.entry_price - exit_price, position.quantity)

NoClose == [called |-> FALSE]

\* a close_position that takes the position off the ledger whether or not
\* the exchange accepted the closing order
close_position_drop(t, r, amt, symbol, reason, klines, accepted, utcnow) ==
    LET unchanged == [tracker |-> t, risk |-> r, amt |-> amt, called |-> TRUE,
                      reason |-> reason, found |-> FALSE, order |-> NoOrder,
                      accepted |-> FALSE, result |-> "none", alert |-> "none"]
    IN IF ~has_position(t, symbol) THEN unchanged
       ELSE IF klines = None THEN [unchanged EXCEPT !.found = TRUE, !.alert = "error"]
       ELSE LET position == get_position(t, symbol)
                order == create_order(symbol, Opposite(position.side), position.quantity,
                                      "MARKET", None, "absent")
            IN [unchanged EXCEPT
                   !.found = TRUE, !.order = order, !.accepted = accepted,
                   !.amt = IF accepted THEN AfterFill(amt, order) ELSE amt,
                   !.tracker = tracker_close_position(t, symbol, klines, utcnow, reason,
                                                      calculate_pnl(position, klines)),
                   !.alert = "error"]

\* close_position(symbol, reason) on ledger t, risk state r and exchange amount
\* amt; klines is the close get_klines reports (None: it raises), accepted
\* whether the exchange accepts the order.  The result is the ledger, the
\* risk state and the exchange amount the call leaves, the order it sent and
\* what it returned.
close_position(t, r, amt, symbol, reason, klines, accepted, utcnow) ==
    LET unchanged == [tracker |-> t, risk |-> r, amt |-> amt, called |-> TRUE,
                      reason |-> reason, found |-> FALSE, order |-> NoOrder,
                      accepted |-> FALSE, result |-> "none", alert |-> "none"]
    IN IF ~has_position(t, symbol) THEN unchanged
       ELSE IF klines = None THEN [unchanged EXCEPT !.found = TRUE, !.alert = "error"]
       ELSE LET position == get_position(t, symbol)
                pnl == calculate_pnl(position, klines)
                order == create_order(symbol, Opposite(position.side), position.quantity,
                                      "MARKET", None, "absent")
                sent == [unchanged EXCEPT !.found = TRUE, !.order = order]
            IN IF ~accepted THEN [sent EXCEPT !.alert = "error"]
               ELSE IF "risk_manager" \notin OrderManagerAttributes
               THEN [sent EXCEPT !.amt = AfterFill(amt, order), !.accepted = TRUE,
                                 !.alert = "error"]
               ELSE [sent EXCEPT
                        !.amt = AfterFill(amt, order), !.accepted = TRUE,
                        !.risk = [r EXCEPT !.position_strengths = DictDel(@, symbol)],
                        !.tracker = tracker_close_position(t, symbol, klines, utcnow,
                                                           reason, pnl),
                        !.result = "order", !.alert = "success"]

\* position_monitor.py:31-32
StopLossHit(position, current_price) ==
    \/ position.side = "BUY" /\ current_price <= position.stop_loss
    \/ position.side = "SELL" /\ current_price >= position.stop_loss

\* position_monitor.py:37-39
TakeProfitHit(position, current_price) ==
    \E i \in 1..Len(position.take_profits) :
        \/ position.side = "BUY" /\ current_price >= position.take_profits[i].price
        \/ position.side = "SELL" /\ current_price <= position.take_profits[i].price

\* the trigger the loop body finds for a position at the close it read; a
\* stop_loss of None makes the comparison raise
MonitorTrigger(position, current_price) ==
    IF current_price = None \/ position.stop_loss = None THEN "error"
    ELSE IF StopLossHit(position, current_price) THEN "stop_loss"
    ELSE IF TakeProfitHit(position, current_price) THEN "take_profit"
    ELSE "none"

(***************************************************************************)
(* Spec: the engine.  FutBotV2.initialize (src/main.py:71-95) creates a    *)
(* PositionTracker (tracker), a RiskManagement (risk), an OrderManager,    *)
(* which creates its own PositionTracker (om_tracker), and a               *)
(* PositionMonitor on that OrderManager.  The trading cycle reconciles     *)
(* tracker, then for a tracked symbol with a signal asks can_trade and     *)
(* calls place_order; the monitor evaluates the positions of om_tracker;   *)
(* close_position may also be called directly.  The exchange holds one     *)
(* position amount per symbol, which the orders sent change and which may  *)
(* go to zero from outside (a bracket order triggers, a liquidation, a     *)
(* manual close).                                                          *)
(***************************************************************************)
MaxExposure == 1   \* largest |position amount|, in units of the signal size

SymbolOrder == <<"BTCUSDT", "ETHUSDT">>

\* config['pairs']['tracked_pairs']
TrackedPairs == {"BTCUSDT"}

\* get_position_risk: one entry per symbol
ExchangeSnapshot ==
    [i \in 1..Len(SymbolOrder) |->
        LET amt == exchange[SymbolOrder[i]]
        IN [symbol |-> SymbolOrder[i], positionAmt |-> amt,
            entryPrice |-> IF amt = 0 THEN 0 ELSE EntryPrice,
            markPrice |-> MarkPrice,
            unrealizedProfit |-> MulMicro(MarkPrice - EntryPrice, amt),
            leverage |-> 5]]

\* signals CoreStrategy.analyze_market produces for a symbol
EngineSignals(symbol) ==
    {[symbol |-> symbol, signal |-> side, size |-> Micro,
      stop_loss |-> IF side = "BUY" THEN EntryPrice - Micro ELSE EntryPrice + Micro,
      take_profits |-> TakeProfits(side, 1),
      strength |-> IF side = "BUY" THEN 400 ELSE -400,
      atr |-> Micro, price |-> EntryPrice] : side \in Sides}

\* the closes get_klines may report to the monitor and to close_position
EnginePrices == {EntryPrice - Micro, EntryPrice, EntryPrice + Micro}

InExposure(amt) == Abs(amt) <= MaxExposure * Micro

ExposureAmts == {k * Micro : k \in -MaxExposure..MaxExposure}

TrackedSignals == UNION {EngineSignals(symbol) : symbol \in TrackedPairs}

\* the signals of a configuration that tracks every symbol
AllSignals == UNION {EngineSignals(symbol) : symbol \in Symbols}

\* place_order for every signal and every position amount it can start from
PlaceOrderTable ==
    [signal \in AllSignals, amt \in ExposureAmts |-> place_order(signal, amt)]

\* the cycle did not call place_order
NoOutcome == [result |-> "not called"]

PlaceOutcomes ==
    {NoOutcome} \cup UNION {PlaceOrderTable[x] : x \in DOMAIN PlaceOrderTable}

Init ==
    /\ tracker = NewTracker
    /\ om_tracker = NewTracker
    /\ exchange = [symbol \in Symbols |-> 0]
    /\ po = [pc |-> "idle"]
    /\ guard = Idle
    /\ bot = Idle
    /\ monitor = Idle
    /\ risk = NewRisk(StartTime)
    /\ now = StartTime
    /\ last = Idle

\* main.py:168-169; get_position_risk raising ends the cycle
CycleSync(raises) ==
    /\ IF raises
       THEN UNCHANGED tracker
       ELSE /\ Len(sync_with_exchange(tracker, ExchangeSnapshot, now).closed_positions)
                   <= MaxClosed
            /\ tracker' = sync_with_exchange(tracker, ExchangeSnapshot, now)
    /\ last' = [op |-> "cycle_sync", raised |-> raises]
    /\ UNCHANGED <<om_tracker, exchange, po, guard, bot, monitor, risk, now>>

\* main.py:173-211 for one symbol with a signal whose size passed
\* validate_quantity: can_trade, then place_order when it admits the trade
CycleTrade(symbol, signal, response_raises, notifier_ok, outcome) ==
    LET call == can_trade(risk, now, symbol, signal,
                          [raises |-> response_raises, positions |-> ExchangeSnapshot],
                          notifier_ok)
        admitted == call.outcome.result
    IN /\ risk' = call.risk
       /\ IF admitted
          THEN /\ outcome \in PlaceOrderTable[signal, exchange[symbol]]
               /\ InExposure(outcome.amt)
               /\ exchange' = [exchange EXCEPT ![symbol] = outcome.amt]
               /\ om_tracker' =
                      IF outcome.recorded
                      THEN add_position(om_tracker,
                                        PlacedPosition([signal |-> signal,
                                                        executed |-> outcome.executed,
                                                        avg_price |-> outcome.avg_price],
                                                       now))
                      ELSE om_tracker
               /\ last' = [op |-> "cycle_trade", symbol |-> symbol,
                           admitted |-> TRUE, result |-> outcome.result]
          ELSE /\ outcome = NoOutcome
               /\ last' = [op |-> "cycle_trade", symbol |-> symbol,
                           admitted |-> FALSE, result |-> "none"]
               /\ UNCHANGED <<exchange, om_tracker>>
       /\ UNCHANGED <<tracker, po, guard, bot, monitor, now>>

\* what a close_position call sent and returned
CloseSeen(close) ==
    [called |-> TRUE, found |-> close.found, order |-> close.order,
     accepted |-> close.accepted, result |-> close.result, alert |-> close.alert]

\* OrderManager.close_position(symbol, reason) called from the monitor
\* (reason stop_loss, take_profit) or directly (reason manual)
ApplyClose(symbol, close) ==
    /\ InExposure(close.amt)
    /\ om_tracker' = close.tracker
    /\ risk' = close.risk
    /\ exchange' = [exchange EXCEPT ![symbol] = close.amt]

\* position_monitor.py:25-44 for one position of the OrderManager's ledger;
\* current_price is the close the monitor reads (None: get_klines raises)
MonitorCheck(symbol, current_price, klines, accepted) ==
    /\ has_position(om_tracker, symbol)
    /\ LET trigger == MonitorTrigger(get_position(om_tracker, symbol), current_price)
       IN IF trigger \in {"stop_loss", "take_profit"}
          THEN LET close == close_position(om_tracker, risk, exchange[symbol], symbol,
                                           trigger, klines, accepted, now)
               IN /\ ApplyClose(symbol, close)
                  /\ last' = [op |-> "check_positions", symbol |-> symbol,
                              trigger |-> trigger,
                              close |-> CloseSeen(close)]
          ELSE /\ klines = None /\ ~accepted
               /\ last' = [op |-> "check_positions", symbol |-> symbol,
                           trigger |-> trigger, close |-> NoClose]
               /\ UNCHANGED <<om_tracker, risk, exchange>>
    /\ UNCHANGED <<tracker, po, guard, bot, monitor, now>>

ClosePosition(symbol, klines, accepted) ==
    /\ LET close == close_position(om_tracker, risk, exchange[symbol], symbol,
                                   "manual", klines, accepted, now)
       IN /\ ApplyClose(symbol, close)
          /\ last' = [op |-> "close_position", symbol |-> symbol, trigger |-> "manual",
                      close |-> CloseSeen(close)]
    /\ UNCHANGED <<tracker, po, guard, bot, monitor, now>>

\* the exchange position goes to zero without an order of this engine
ExternalClose(symbol) ==
    /\ exchange[symbol] # 0
    /\ exchange' = [exchange EXCEPT ![symbol] = 0]
    /\ last' = [op |-> "external_close", symbol |-> symbol]
    /\ UNCHANGED <<tracker, om_tracker, po, guard, bot, monitor, risk, now>>

Next ==
    \/ \E raises \in BOOLEAN : CycleSync(raises)
    \/ \E signal \in TrackedSignals, response_raises \in BOOLEAN,
          notifier_ok \in BOOLEAN, outcome \in PlaceOutcomes :
           CycleTrade(signal.symbol, signal, response_raises, notifier_ok, outcome)
    \/ \E symbol \in Symbols, current_price \in {None} \cup EnginePrices,
          klines \in {None, MarkPrice}, accepted \in BOOLEAN :
           MonitorCheck(symbol, current_price, klines, accepted)
    \/ \E symbol \in Symbols, klines \in {None, MarkPrice}, accepted \in BOOLEAN :
           ClosePosition(symbol, klines, accepted)
    \/ \E symbol \in Symbols : ExternalClose(symbol)

Spec == Init /\ [][Next]_vars

\* a step in which close_position was called and sent its order
CloseOrderSent ==
    /\ last'.op \in {"check_positions", "close_position"}
    /\ last'.close.called
    /\ last'.close.order.type # "none"

(***************************************************************************)
(* C2, as claimed.  Every order close_position sends is a MARKET order     *)
(* flagged reduce-only, on the side opposite to the ledger position's side *)
(* and for its full quantity; the call never opens, increases or reverses  *)
(* the exchange position of the symbol.                                    *)
(***************************************************************************)
C2_AsClaimedStep ==
    CloseOrderSent =>
        LET symbol == last'.symbol
            order == last'.close.order
            position == get_position(om_tracker, symbol)
        IN /\ order.type = "MARKET"
           /\ IsReduceOnly(order)
           /\ order.side = Opposite(position.side)
           /\ order.quantity = position.quantity
           /\ Abs(exchange'[symbol]) <= Abs(exchange[symbol])
           /\ exchange[symbol] >= 0 => exchange'[symbol] >= 0
           /\ exchange[symbol] <= 0 => exchange'[symbol] <= 0

C2_AsClaimed == [][C2_AsClaimedStep]_vars

(***************************************************************************)
(* C3, as claimed.  Whenever the exchange accepts the closing order of     *)
(* close_position(symbol, reason), on return the symbol is no longer open  *)
(* in the OrderManager's ledger, the closed history has one new record,    *)
(* for that symbol, with the given reason, the exit price and the pnl      *)
(* computed from it, and the order result is returned.                     *)
(***************************************************************************)
C3_AsClaimedStep ==
    (CloseOrderSent /\ last'.close.accepted) =>
        LET symbol == last'.symbol
            position == get_position(om_tracker, symbol)
            before == Len(om_tracker.closed_positions)
        IN /\ ~has_position(om_tracker', symbol)
           /\ Len(om_tracker'.closed_positions) = before + 1
           /\ LET r == om_tracker'.closed_positions[before + 1]
              IN /\ r.symbol = symbol
                 /\ r.exit_reason = last'.trigger
                 /\ r.pnl = calculate_pnl(position, r.exit_price)
           /\ last'.close.result = "order"

C3_AsClaimed == [][C3_AsClaimedStep]_vars

(***************************************************************************)
(* C39 (as claimed): a ledger position is closed at most once.  Once the   *)
(* exchange has accepted a closing order the monitor sent for a position,  *)
(* no later poll sends another order for it: here, the poll that follows   *)
(* an accepted close of a symbol sends no order for that symbol.           *)
(***************************************************************************)
C39_AsClaimedStep ==
    (/\ last.op = "check_positions"
     /\ last.close.called
     /\ last.close.accepted
     /\ last'.op = "check_positions"
     /\ last'.symbol = last.symbol
     /\ last'.close.called)
    => last'.close.order.type = "none"

C39_AsClaimed == [][C39_AsClaimedStep]_vars

(***************************************************************************)
(* C6, as claimed.  Once the exchange reports a symbol flat and the        *)
(* trading cycle's sync_with_exchange has completed, the position monitor  *)
(* no longer evaluates triggers for the symbol and close_position finds no *)
(* position for it: the ledger the cycle reconciles is the ledger the      *)
(* OrderManager and the monitor use.                                       *)
(***************************************************************************)
\* check_positions iterates order_manager.position_tracker (line 23)
MonitorEvaluates(symbol) == has_position(om_tracker, symbol)

\* close_position reads self.position_tracker (order_manager.py:441)
ClosePositionFinds(symbol) == has_position(om_tracker, symbol)

C6_AsClaimed ==
    (last.op = "cycle_sync" /\ ~last.raised) =>
        \A symbol \in Symbols :
            exchange[symbol] = 0 =>
                /\ ~has_position(tracker, symbol)
                /\ ~MonitorEvaluates(symbol)
                /\ ~ClosePositionFinds(symbol)

(***************************************************************************)
(* C9, as claimed.  Every position close recorded in a ledger is followed  *)
(* by an update_trade_outcome call with the trade's pnl: the calls made    *)
(* are as many as the closes, daily_pnl is the sum of the pnl of the       *)
(* closed trades (all within the current 24h window here), and             *)
(* last_trade_time[symbol] is the time of the symbol's most recent close.  *)
(***************************************************************************)
AllClosed == tracker.closed_positions \o om_tracker.closed_positions

C9_AsClaimed ==
    /\ risk.trade_history_len = Len(AllClosed)
    /\ risk.daily_pnl = SumPnl(AllClosed)
    /\ \A i \in 1..Len(AllClosed) :
           /\ DictHas(risk.last_trade_time, AllClosed[i].symbol)
           /\ \E j \in 1..Len(AllClosed) :
                  /\ AllClosed[j].symbol = AllClosed[i].symbol
                  /\ DictGet(risk.last_trade_time, AllClosed[i].symbol)
                         = AllClosed[j].exit_time

(***************************************************************************)
(* C23: if the price query or the closing order of close_position fails,   *)
(* close_position returns null without raising, sends a failure            *)
(* notification, and leaves the ledger unchanged: the position stays open  *)
(* locally and the closed history gets no record.                          *)
(***************************************************************************)
CloseReasons == {"manual", "stop_loss", "take_profit"}

C23_CallChecks(symbol, reason, klines, accepted) ==
    LET close == close_position(om_tracker, risk, exchange[symbol], symbol, reason,
                                klines, accepted, now)
    IN (close.found /\ (klines = None \/ ~accepted)) =>
           /\ close.result = "none"
           /\ close.alert = "error"
           /\ close.tracker = om_tracker
           /\ has_position(close.tracker, symbol)
           /\ close.amt = exchange[symbol]
           /\ klines = None => close.order = NoOrder

C23_CloseFailure ==
    \A symbol \in Symbols, reason \in CloseReasons, klines \in {None, MarkPrice},
       accepted \in BOOLEAN :
        C23_CallChecks(symbol, reason, klines, accepted)

C23_Witness ==
    /\ last.op \in {"close_position", "check_positions"}
    /\ last.close.called
    /\ last.close.found
    /\ last.close.order.type = "MARKET"
    /\ ~last.close.accepted
    /\ last.close.result = "none"
    /\ last.close.alert = "error"
    /\ has_position(om_tracker, last.symbol)
    /\ om_tracker.closed_positions = <<>>

(***************************************************************************)
(* C32 (as claimed): sign-correct pnl.  _calculate_pnl returns (exit minus *)
(* entry) * quantity for a BUY position and (entry - exit) * quantity for  *)
(* a SELL position (BUY 100 -> 110 with quantity 2 gives 20, SELL 100 ->   *)
(* 90 with quantity 2 gives 20), and this is the pnl close_position        *)
(* records in the closed history: after a close whose order the exchange   *)
(* accepted, the last record of the history is the position's, with that   *)
(* pnl for its entry price and the exit price read.                        *)
(***************************************************************************)
C32_AsClaimed ==
    /\ calculate_pnl([side |-> "BUY", entry_price |-> 100 * Micro,
                      quantity |-> 2 * Micro], 110 * Micro) = 20 * Micro
    /\ calculate_pnl([side |-> "SELL", entry_price |-> 100 * Micro,
                      quantity |-> 2 * Micro], 90 * Micro) = 20 * Micro
    /\ (/\ last.op \in {"close_position", "check_positions"}
        /\ last.close.called
        /\ last.close.accepted)
       => /\ Len(om_tracker.closed_positions) >= 1
          /\ LET record == om_tracker.closed_positions[Len(om_tracker.closed_positions)]
             IN /\ record.symbol = last.symbol
                /\ record.side = "BUY" =>
                      record.pnl = MulMicro(record.exit_price - record.entry_price,
                                            record.quantity)
                /\ record.side = "SELL" =>
                      record.pnl = MulMicro(record.entry_price - record.exit_price,
                                            record.quantity)

(***************************************************************************)
(* PositionMonitor (src/exchange/position_monitor.py) as a task.  The      *)
(* record m holds the object's running flag, the position of the task (pc: *)
(* "created" before start() runs, "loop" at the test of the while loop,    *)
(* "pass" inside the for loop of check_positions, "cancelled" once the     *)
(* event loop has cancelled the task), the list get_all_positions returned *)
(* to the pass (positions), the index of the position the pass handles     *)
(* next (i), and for the pass in progress the positions it evaluated with  *)
(* the price it read (evaluated) and the close_position calls it made      *)
(* (calls).                                                                *)
(***************************************************************************)
NewMonitor ==
    [running |-> FALSE, pc |-> "created", positions |-> <<>>, i |-> 1,
     evaluated |-> <<>>, calls |-> <<>>, passes |-> 0]

\* lines 12-14: start() sets the flag and enters the loop
monitor_start(m) == [m EXCEPT !.running = TRUE, !.pc = "loop"]

\* lines 22-24: check_positions takes a copy of the ledger's positions
check_positions_begin(m, t) ==
    [m EXCEPT !.pc = "pass", !.positions = get_all_positions(t), !.i = 1,
              !.evaluated = <<>>, !.calls = <<>>, !.passes = @ + 1]

\* a take-profit loop without the break of line 41
RECURSIVE TakeProfitCallsNoBreak(_, _, _)
TakeProfitCallsNoBreak(position, current_price, k) ==
    IF k > Len(position.take_profits) THEN <<>>
    ELSE IF \/ position.side = "BUY" /\ current_price >= position.take_profits[k].price
            \/ position.side = "SELL" /\ current_price <= position.take_profits[k].price
         THEN <<"take_profit">> \o TakeProfitCallsNoBreak(position, current_price, k + 1)
         ELSE TakeProfitCallsNoBreak(position, current_price, k + 1)

\* lines 37-41: the reasons of the close_position calls the take-profit loop
\* makes from the k-th take-profit on
RECURSIVE TakeProfitCalls(_, _, _)
TakeProfitCalls(position, current_price, k) ==
    IF k > Len(position.take_profits) THEN <<>>
    ELSE IF \/ position.side = "BUY" /\ current_price >= position.take_profits[k].price
            \/ position.side = "SELL" /\ current_price <= position.take_profits[k].price
         THEN <<"take_profit">>
         ELSE TakeProfitCalls(position, current_price, k + 1)

\* lines 27-41: the reasons of the close_position calls the loop body makes
\* for a position at the close it read (None: get_klines raised)
CloseCalls(position, current_price) ==
    IF current_price = None \/ position.stop_loss = None THEN <<>>
    ELSE IF StopLossHit(position, current_price) THEN <<"stop_loss">>
    ELSE TakeProfitCalls(position, current_price, 1)

\* the close_position calls of one loop body, one after the other
RECURSIVE ApplyCloses(_, _, _, _, _, _)
ApplyCloses(state, symbol, reasons, klines, accepted, utcnow) ==
    IF reasons = <<>> THEN state
    ELSE LET close == close_position(state.tracker, state.risk, state.amt, symbol,
                                     Head(reasons), klines, accepted, utcnow)
         IN ApplyCloses([tracker |-> close.tracker, risk |-> close.risk,
                         amt |-> close.amt,
                         orders |-> IF close.order = NoOrder THEN state.orders
                                    ELSE Append(state.orders, close.order)],
                        symbol, Tail(reasons), klines, accepted, utcnow)

\* a loop body whose error ends the pass
monitor_iteration_abort(m, t, r, amts, current_price, klines, accepted, utcnow) ==
    LET position == m.positions[m.i]
        symbol == position.symbol
        reasons == CloseCalls(position, current_price)
        after == ApplyCloses([tracker |-> t, risk |-> r, amt |-> amts[symbol],
                              orders |-> <<>>],
                             symbol, reasons, klines, accepted, utcnow)
    IN [monitor |-> [m EXCEPT
                        !.i = IF current_price = None THEN Len(m.positions) + 1 ELSE @ + 1,
                        !.evaluated = Append(@, [symbol |-> symbol, price |-> current_price]),
                        !.calls = @ \o [k \in 1..Len(reasons) |->
                                           [symbol |-> symbol, reason |-> reasons[k]]]],
        tracker |-> after.tracker, risk |-> after.risk,
        exchange |-> [amts EXCEPT ![symbol] = after.amt], orders |-> after.orders]

\* lines 25-44: the loop body for the position m.positions[m.i]; an error of
\* the price query is caught and logged at lines 43-44
monitor_iteration(m, t, r, amts, current_price, klines, accepted, utcnow) ==
    LET position == m.positions[m.i]
        symbol == position.symbol
        reasons == CloseCalls(position, current_price)
        after == ApplyCloses([tracker |-> t, risk |-> r, amt |-> amts[symbol],
                              orders |-> <<>>],
                             symbol, reasons, klines, accepted, utcnow)
    IN [monitor |-> [m EXCEPT
                        !.i = @ + 1,
                        !.evaluated = Append(@, [symbol |-> symbol, price |-> current_price]),
                        !.calls = @ \o [k \in 1..Len(reasons) |->
                                           [symbol |-> symbol, reason |-> reasons[k]]]],
        tracker |-> after.tracker, risk |-> after.risk,
        exchange |-> [amts EXCEPT ![symbol] = after.amt], orders |-> after.orders]

\* the for loop is exhausted and check_positions returns (its list is
\* dropped); start() sleeps and tests the flag again
check_positions_end(m) ==
    [m EXCEPT !.pc = "loop", !.positions = <<>>, !.i = 1,
              !.evaluated = <<>>, !.calls = <<>>]

MaxPasses == 2    \* check_positions passes the specifications explore

\* the closes get_klines may report to the monitor (None: it raises)
MonitorPrices == {None, EntryPrice - Micro, EntryPrice, EntryPrice + 2 * Micro}

MonitorStart ==
    /\ monitor.pc = "created"
    /\ monitor' = monitor_start(monitor)
    /\ last' = [op |-> "monitor_start"]
    /\ UNCHANGED <<tracker, om_tracker, exchange, po, guard, risk, now, bot>>

MonitorPassBegin ==
    /\ monitor.pc = "loop"
    /\ monitor.running
    /\ monitor.passes < MaxPasses
    /\ monitor' = check_positions_begin(monitor, om_tracker)
    /\ last' = [op |-> "check_positions"]
    /\ UNCHANGED <<tracker, om_tracker, exchange, po, guard, risk, now, bot>>

MonitorIteration(current_price, klines, accepted) ==
    /\ monitor.pc = "pass"
    /\ monitor.i <= Len(monitor.positions)
    /\ LET after == monitor_iteration(monitor, om_tracker, risk, exchange, current_price,
                                      klines, accepted, now)
       IN /\ \A symbol \in Symbols : InExposure(after.exchange[symbol])
          /\ monitor' = after.monitor
          /\ om_tracker' = after.tracker
          /\ risk' = after.risk
          /\ exchange' = after.exchange
          /\ last' = [op |-> "monitor_iteration", orders |-> after.orders]
    /\ UNCHANGED <<tracker, po, guard, now, bot>>

MonitorPassEnd ==
    /\ monitor.pc = "pass"
    /\ monitor.i > Len(monitor.positions)
    /\ monitor' = check_positions_end(monitor)
    /\ last' = [op |-> "check_positions_end"]
    /\ UNCHANGED <<tracker, om_tracker, exchange, po, guard, risk, now, bot>>

(***************************************************************************)
(* SpecMonitor: the monitor task alone, on an OrderManager whose ledger    *)
(* holds up to two positions place_order recorded: a long BTCUSDT position *)
(* with two take-profits, and for ETHUSDT a short position or a long one   *)
(* whose stop-loss and take-profit both equal the entry price (a signal    *)
(* with atr = 0 and a take-profit level of 0).                             *)
(***************************************************************************)
MonitoredPositions ==
    [btc |-> [symbol |-> "BTCUSDT", side |-> "BUY", quantity |-> Micro,
              entry_price |-> EntryPrice, entry_time |-> 0,
              stop_loss |-> EntryPrice - Micro,
              take_profits |-> <<[price |-> EntryPrice + Micro, percentage |-> 50],
                                 [price |-> EntryPrice + 2 * Micro, percentage |-> 50]>>],
     eth |-> [symbol |-> "ETHUSDT", side |-> "SELL", quantity |-> Micro,
              entry_price |-> EntryPrice, entry_time |-> 0,
              stop_loss |-> EntryPrice + Micro,
              take_profits |-> TakeProfits("SELL", 1)],
     flat |-> [symbol |-> "ETHUSDT", side |-> "BUY", quantity |-> Micro,
               entry_price |-> EntryPrice, entry_time |-> 0,
               stop_loss |-> EntryPrice,
               take_profits |-> <<[price |-> EntryPrice, percentage |-> 100]>>]]

MonitoredLedgers ==
    LET btc == add_position(NewTracker, MonitoredPositions.btc)
    IN {NewTracker, btc,
        add_position(NewTracker, MonitoredPositions.eth),
        add_position(btc, MonitoredPositions.eth),
        add_position(btc, MonitoredPositions.flat)}

InitMonitor ==
    /\ monitor = NewMonitor
    /\ om_tracker \in MonitoredLedgers
    /\ exchange \in [Symbols -> {0, Micro}]
    /\ risk = NewRisk(StartTime)
    /\ now = StartTime
    /\ tracker = Idle
    /\ po = Idle
    /\ guard = Idle
    /\ bot = Idle
    /\ last = Idle

NextMonitor ==
    \/ MonitorStart
    \/ MonitorPassBegin
    \/ \E current_price \in MonitorPrices, klines \in {None, MarkPrice},
          accepted \in BOOLEAN :
           MonitorIteration(current_price, klines, accepted)
    \/ MonitorPassEnd

SpecMonitor == InitMonitor /\ [][NextMonitor]_vars

(***************************************************************************)
(* C26: in one check_positions pass the monitor invokes close_position at  *)
(* most once per ledger position: with reason 'stop_loss' whenever the     *)
(* side-aware stop-loss condition holds, even if a take-profit condition   *)
(* also holds; otherwise exactly once with reason 'take_profit' if at      *)
(* least one take-profit condition holds; otherwise not at all.            *)
(***************************************************************************)
CallsFor(symbol) ==
    LET mine == SelectSeq(monitor.calls, LAMBDA c : c.symbol = symbol)
    IN [k \in 1..Len(mine) |-> mine[k].reason]

C26_OneCallPerPosition ==
    monitor.pc = "pass" =>
        \A j \in 1..Len(monitor.evaluated) :
            LET position == monitor.positions[j]
                price == monitor.evaluated[j].price
                made == CallsFor(position.symbol)
            IN /\ Len(made) <= 1
               /\ price = None => made = <<>>
               /\ price # None =>
                     made = IF StopLossHit(position, price) THEN <<"stop_loss">>
                            ELSE IF TakeProfitHit(position, price) THEN <<"take_profit">>
                            ELSE <<>>

C26_Witness ==
    /\ monitor.pc = "pass"
    /\ monitor.i > Len(monitor.positions)
    /\ monitor.calls = <<[symbol |-> "BTCUSDT", reason |-> "take_profit"],
                         [symbol |-> "ETHUSDT", reason |-> "stop_loss"]>>
    /\ monitor.evaluated = <<[symbol |-> "BTCUSDT", price |-> EntryPrice + 2 * Micro],
                             [symbol |-> "ETHUSDT", price |-> EntryPrice]>>
    /\ TakeProfitHit(monitor.positions[2], EntryPrice)

(***************************************************************************)
(* C27: monitor isolation.  An error while monitoring one symbol (the      *)
(* price query fails, close_position fails) does not prevent the remaining *)
(* ledger positions from being evaluated in the same pass and does not     *)
(* terminate the monitor loop.                                             *)
(***************************************************************************)
C27_PassCovers ==
    /\ monitor.pc \in {"pass", "loop"} => monitor.running
    /\ monitor.pc = "pass" =>
          /\ monitor.i = Len(monitor.evaluated) + 1
          /\ \A j \in 1..Len(monitor.evaluated) :
                monitor.evaluated[j].symbol = monitor.positions[j].symbol

C27_Step ==
    /\ (monitor.pc = "pass" /\ monitor.i <= Len(monitor.positions) /\ monitor' # monitor) =>
           /\ monitor'.pc = "pass"
           /\ monitor'.i = monitor.i + 1
           /\ monitor'.running
    /\ (monitor.pc = "pass" /\ monitor'.pc = "loop") =>
           /\ Len(monitor.evaluated) = Len(monitor.positions)
           /\ monitor'.running

C27_MonitorIsolation == []C27_PassCovers /\ [][C27_Step]_vars

C27_Witness ==
    /\ monitor.pc = "pass"
    /\ monitor.i > Len(monitor.positions)
    /\ monitor.passes = 1
    /\ Len(monitor.evaluated) = 2
    /\ monitor.evaluated[1].price = None
    /\ monitor.evaluated[2].price # None
    /\ monitor.calls = <<[symbol |-> monitor.positions[2].symbol, reason |-> "stop_loss"]>>

(***************************************************************************)
(* OrderManager.close_all_positions (src/exchange/order_manager.py,        *)
(* lines 214-259) as a loop over the snapshot get_position_risk returned.  *)
(* The activation record st holds the snapshot (positions), the index of   *)
(* the entry the loop handles next (i), the closing orders sent (sent),    *)
(* those the exchange accepted (accepted), the list the operation collects *)
(* (results) and the symbols whose open orders were cancelled (cancelled). *)
(***************************************************************************)
CloseAllStart(positions) ==
    [pc |-> "loop", positions |-> positions, i |-> 1, sent |-> <<>>,
     accepted |-> <<>>, results |-> <<>>, cancelled |-> {}, result |-> "pending"]

\* a loop that gives up at the first closing order the exchange rejects
close_all_iteration_abort(st, t, amts, accepted, cancel_ok, utcnow) ==
    LET position == st.positions[st.i]
        symbol == position.symbol
        order == create_order(symbol, ClosingSide(position.positionAmt),
                              Abs(position.positionAmt), "MARKET", None, "True")
        sent == [st EXCEPT !.i = @ + 1, !.sent = Append(@, order)]
        closed == [sent EXCEPT !.accepted = Append(@, order),
                               !.results = Append(@, order)]
        filled == [amts EXCEPT ![symbol] = AfterFill(@, order)]
    IN IF position.positionAmt = 0
       THEN [st |-> [st EXCEPT !.i = @ + 1], tracker |-> t, exchange |-> amts]
       ELSE IF ~accepted
       THEN [st |-> [sent EXCEPT !.i = Len(st.positions) + 1],
             tracker |-> t, exchange |-> amts]
       ELSE [st |-> closed, tracker |-> t, exchange |-> filled]

\* lines 219-254: the loop body for the entry st.positions[st.i]; accepted is
\* whether the exchange accepts the closing order, cancel_ok whether
\* cancel_all_orders succeeds
close_all_iteration(st, t, amts, accepted, cancel_ok, utcnow) ==
    LET position == st.positions[st.i]
        symbol == position.symbol
        order == create_order(symbol, ClosingSide(position.positionAmt),
                              Abs(position.positionAmt), "MARKET", None, "True")
        sent == [st EXCEPT !.i = @ + 1, !.sent = Append(@, order)]
        closed == [sent EXCEPT !.accepted = Append(@, order),
                               !.results = Append(@, order)]
        filled == [amts EXCEPT ![symbol] = AfterFill(@, order)]
    IN IF position.positionAmt = 0
       THEN [st |-> [st EXCEPT !.i = @ + 1], tracker |-> t, exchange |-> amts]
       ELSE IF ~accepted
       THEN [st |-> sent, tracker |-> t, exchange |-> amts]
       ELSE IF ~cancel_ok
       THEN [st |-> closed, tracker |-> t, exchange |-> filled]
       ELSE [st |-> [closed EXCEPT !.cancelled = @ \cup {symbol}],
             tracker |-> IF has_position(t, symbol)
                         THEN tracker_close_position(t, symbol, position.markPrice,
                                                     utcnow, "shutdown",
                                                     position.unrealizedProfit)
                         ELSE t,
             exchange |-> filled]

(***************************************************************************)
(* SpecCloseAll: one close_all_positions call on an OrderManager whose     *)
(* ledger holds positions for any set of symbols, with any exchange        *)
(* position per symbol.                                                    *)
(***************************************************************************)
CloseAllPosition(symbol) ==
    [symbol |-> symbol, side |-> "BUY", quantity |-> Micro,
     entry_price |-> EntryPrice, entry_time |-> 0,
     stop_loss |-> EntryPrice - Micro,
     take_profits |-> TakeProfits("BUY", 1)]

CloseAllLedgers ==
    LET btc == add_position(NewTracker, CloseAllPosition("BTCUSDT"))
    IN {NewTracker, btc,
        add_position(NewTracker, CloseAllPosition("ETHUSDT")),
        add_position(btc, CloseAllPosition("ETHUSDT"))}

InitCloseAll ==
    /\ po = [pc |-> "idle"]
    /\ om_tracker \in CloseAllLedgers
    /\ exchange \in [Symbols -> PositionAmts]
    /\ tracker = Idle
    /\ guard = Idle
    /\ bot = Idle
    /\ monitor = Idle
    /\ risk = Idle
    /\ now = 0
    /\ last = Idle

\* line 217: get_position_risk answers or raises (the error is re-raised at
\* lines 257-259)
CloseAllCall(raises) ==
    /\ po.pc = "idle"
    /\ po' = IF raises
             THEN [CloseAllStart(<<>>) EXCEPT !.pc = "done", !.result = "raised"]
             ELSE CloseAllStart(ExchangeSnapshot)
    /\ last' = [op |-> "close_all_positions"]
    /\ UNCHANGED <<tracker, om_tracker, exchange, guard, bot, monitor, risk, now>>

CloseAllIteration(accepted, cancel_ok) ==
    /\ po.pc = "loop"
    /\ po.i <= Len(po.positions)
    /\ LET after == close_all_iteration(po, om_tracker, exchange, accepted, cancel_ok, now)
       IN /\ po' = after.st
          /\ om_tracker' = after.tracker
          /\ exchange' = after.exchange
    /\ last' = [op |-> "close_all_iteration", accepted |-> accepted,
                cancel_ok |-> cancel_ok]
    /\ UNCHANGED <<tracker, guard, bot, monitor, risk, now>>

\* line 256
CloseAllReturn ==
    /\ po.pc = "loop"
    /\ po.i > Len(po.positions)
    /\ po' = [po EXCEPT !.pc = "done", !.result = "list"]
    /\ last' = [op |-> "close_all_return"]
    /\ UNCHANGED <<tracker, om_tracker, exchange, guard, bot, monitor, risk, now>>

NextCloseAll ==
    \/ \E raises \in BOOLEAN : CloseAllCall(raises)
    \/ \E accepted \in BOOLEAN, cancel_ok \in BOOLEAN : CloseAllIteration(accepted, cancel_ok)
    \/ CloseAllReturn

SpecCloseAll == InitCloseAll /\ [][NextCloseAll]_vars

(***************************************************************************)
(* C24: close_all_positions attempts a closing reduce-only market order    *)
(* for every exchange position with nonzero amount, regardless of failures *)
(* on other symbols; the returned list contains exactly the results of the *)
(* closing orders the exchange accepted, and a per-symbol error never      *)
(* propagates out of the operation.                                        *)
(***************************************************************************)
Handled(st) == SelectSeq(SubSeq(st.positions, 1, st.i - 1), LAMBDA p : p.positionAmt # 0)

C24_ClosesEach ==
    (po.pc \in {"loop", "done"} /\ po.result # "raised") =>
        /\ Len(po.sent) = Len(Handled(po))
        /\ \A k \in 1..Len(po.sent) :
              /\ po.sent[k].symbol = Handled(po)[k].symbol
              /\ po.sent[k].type = "MARKET"
              /\ IsReduceOnly(po.sent[k])
              /\ po.sent[k].side = ClosingSide(Handled(po)[k].positionAmt)
              /\ po.sent[k].quantity = Abs(Handled(po)[k].positionAmt)
        /\ po.results = po.accepted
        /\ po.pc = "done" => po.i = Len(po.positions) + 1 /\ po.result = "list"

C24_Witness ==
    /\ po.pc = "done"
    /\ po.result = "list"
    /\ Len(po.sent) = 2
    /\ Len(po.results) = 1
    /\ po.results[1].symbol = "ETHUSDT"

(***************************************************************************)
(* C25 (as claimed): on return of close_all_positions, every symbol whose  *)
(* closing order result is in the returned list is no longer an open       *)
(* position in the ledger.                                                 *)
(***************************************************************************)
C25_AsClaimed ==
    (po.pc = "done" /\ po.result = "list") =>
        \A k \in 1..Len(po.results) : ~has_position(om_tracker, po.results[k].symbol)

(***************************************************************************)
(* SpecCapacity: the engine with every symbol in tracked_pairs.  The       *)
(* ledger of FutBotV2 (tracker) is read by none of these actions, so its   *)
(* reconciliation is left out.                                             *)
(***************************************************************************)
NextCapacity ==
    \/ \E signal \in AllSignals, response_raises \in BOOLEAN,
          notifier_ok \in BOOLEAN, outcome \in PlaceOutcomes :
           CycleTrade(signal.symbol, signal, response_raises, notifier_ok, outcome)
    \/ \E symbol \in Symbols, current_price \in {None} \cup EnginePrices,
          klines \in {None, MarkPrice}, accepted \in BOOLEAN :
           MonitorCheck(symbol, current_price, klines, accepted)
    \/ \E symbol \in Symbols : ExternalClose(symbol)

SpecCapacity == Init /\ [][NextCapacity]_vars

\* the symbols with a nonzero exchange position; under SpecCapacity the
\* exchange starts flat and only orders of the engine open a position
OpenOnExchange == {symbol \in Symbols : exchange[symbol] # 0}

(***************************************************************************)
(* C12 (as claimed): the number of symbols with a nonzero exchange         *)
(* position opened by the engine never exceeds max_concurrent_positions.   *)
(***************************************************************************)
(* C13 (as claimed): can_trade never returns true for a signal whose       *)
(* atr/price exceeds 5%, whether or not the open-position count is at      *)
(* capacity.  Stated for every call the object can receive in the current  *)
(* state.                                                                  *)
(***************************************************************************)
C13_AsClaimed ==
    \A symbol \in Symbols, signal \in RiskSignals, response \in RiskResponses,
       notifier_ok \in BOOLEAN :
        signal.atr * 20 > signal.price
            => ~can_trade(risk, now, symbol, signal, response, notifier_ok).outcome.result

(***************************************************************************)
(* C14 (as claimed): when update_trade_outcome was last called for a       *)
(* symbol at time t, every can_trade call for that symbol earlier than     *)
(* t + cooldown returns false, whether or not the open-position count is   *)
(* at capacity.                                                            *)
(***************************************************************************)
InCooldown(r, utcnow, symbol) ==
    /\ DictHas(r.last_trade_time, symbol)
    /\ utcnow < DictGet(r.last_trade_time, symbol) + TradeCooldownSec

C14_AsClaimed ==
    \A symbol \in Symbols, signal \in RiskSignals, response \in RiskResponses,
       notifier_ok \in BOOLEAN :
        InCooldown(risk, now, symbol)
            => ~can_trade(risk, now, symbol, signal, response, notifier_ok).outcome.result

(***************************************************************************)
(* C15: can_trade fails closed.  Whenever a step of the evaluation raises  *)
(* (get_position_risk, the lookup of a configuration section that is       *)
(* missing, or send_alert of the daily-loss alert), can_trade returns      *)
(* false through its except clause.  Stated for every call the object can  *)
(* receive in the current state.                                           *)
(***************************************************************************)
\* a step of the evaluation raises; r is the state after reset_daily_stats
StepRaises(r, symbol, signal, response, notifier_ok) ==
    \/ response.raises
    \/ /\ ~response.raises
       /\ ~ExistingPosition(response.positions, symbol)
       /\ \/ "strategy" \notin r.config
          \/ /\ "strategy" \in r.config
             /\ Abs(signal.strength) >= MinSignalStrength
             /\ \/ "risk" \notin r.config
                \/ /\ "risk" \in r.config
                   /\ IF r.daily_pnl < -MaxDailyLoss
                      THEN ~notifier_ok
                      ELSE "pairs" \notin r.config

C15_CallChecks(symbol, signal, response, notifier_ok) ==
    LET call == can_trade(risk, now, symbol, signal, response, notifier_ok)
    IN StepRaises(call.risk, symbol, signal, response, notifier_ok)
           => ~call.outcome.result /\ call.outcome.reason = "error"

C15_FailsClosed ==
    \A symbol \in Symbols, signal \in RiskSignals, response \in RiskResponses,
       notifier_ok \in BOOLEAN :
        C15_CallChecks(symbol, signal, response, notifier_ok)

\* can_trade has returned false through its except clause on an object whose
\* configuration lacks a section
C15_Witness ==
    /\ last.op = "can_trade"
    /\ ~last.result
    /\ last.reason = "error"
    /\ risk.config # ConfigSections

(***************************************************************************)
C12_AsClaimed == Cardinality(OpenOnExchange) <= MaxConcurrentPositions

(***************************************************************************)
(* main() (src/main.py:328-345) as a task: FutBotV2.initialize, start with *)
(* the trading loop, and shutdown.  The record b holds the position of the *)
(* task (pc), FutBotV2.running, the state of the notifier's and the        *)
(* client's network session ("none", "open", "closed"), the number of      *)
(* shutdown() calls made and whether one of them got past its guard, the   *)
(* number of trading cycles begun, the index of the symbol the cycle       *)
(* handles (k), its signal, the answer of can_trade for it (gate), the     *)
(* signals of the place_order calls in flight, the shutdown close tasks    *)
(* that have not finished (closes), and the clause of main() that called   *)
(* shutdown (caller).                                                      *)
(***************************************************************************)
NoSignal == [signal |-> "none"]

NoGate == [result |-> FALSE, signal |-> NoSignal, cycle |-> 0]

NewBot ==
    [pc |-> "initialize", running |-> FALSE,
     notifier_session |-> "none", client_session |-> "none",
     shutdown_calls |-> 0, shutdown_started |-> FALSE,
     cycle |-> 0, k |-> 1, signal |-> NoSignal, gate |-> NoGate,
     in_flight |-> <<>>, closes |-> {}, caller |-> "none"]

\* a cycle that calls place_order whatever can_trade answered
after_gate_always(b, result) == [b EXCEPT !.pc = "place"]

\* main.py:203-207: 'continue' unless can_trade returned true
after_gate(b, result) ==
    IF result THEN [b EXCEPT !.pc = "place"]
    ELSE [b EXCEPT !.pc = "symbol", !.k = @ + 1, !.signal = NoSignal, !.gate = NoGate]

\* main.py:217-222: the guard of shutdown(); a call that finds the flag
\* cleared returns at once, to the clause of main() that follows
shutdown_call(b) ==
    IF ~b.running
    THEN [b EXCEPT !.shutdown_calls = @ + 1,
                   !.pc = IF b.pc = "except" THEN "finally" ELSE "return"]
    ELSE [b EXCEPT !.shutdown_calls = @ + 1, !.running = FALSE,
                   !.shutdown_started = TRUE, !.caller = b.pc, !.pc = "sd_positions"]

\* main.py:235-238: the task created for one entry of the snapshot
NewCloseTask(pos) ==
    [symbol |-> pos.symbol, positionAmt |-> pos.positionAmt, attempt |-> 0]

\* what the exchange answers to the requests of one attempt: one of the
\* three requests fails, or the order is accepted and the position query
\* shows it executed, not executed, or lacks the symbol
CloseAnswers ==
    {"cancel_raises", "order_raises", "query_raises",
     "executed", "not_executed", "query_missing"}

CloseRaises == {"cancel_raises", "order_raises", "query_raises"}

\* main.py:264-287: how one attempt leaves the loop of
\* _close_single_position: 'return' on a verified closure; the except
\* clause re-raises on the third attempt; otherwise the next attempt, and
\* after the third the loop is exhausted and the function returns
close_attempt_state(task, answer, verified) ==
    IF verified THEN "returned"
    ELSE IF answer \in CloseRaises /\ task.attempt = 2 THEN "raised"
    ELSE IF task.attempt = 2 THEN "returned"
    ELSE "pending"

\* main.py:264-287: one attempt of _close_single_position against a
\* position amount amt on the exchange
close_single_attempt(task, amt, answer) ==
    LET order == create_order(task.symbol, ClosingSide(task.positionAmt),
                              Abs(task.positionAmt), "MARKET", None, "True")
        after == IF answer \in {"executed", "query_raises", "query_missing"}
                 THEN AfterFill(amt, order) ELSE amt
        verified == answer \in {"executed", "not_executed"} /\ after = 0
    IN [amt |-> after,
        orders |-> IF answer = "cancel_raises" THEN <<>> ELSE <<order>>,
        verified |-> verified,
        state |-> close_attempt_state(task, answer, verified),
        task |-> [task EXCEPT !.attempt = @ + 1]]

\* main.py:264-287: _close_single_position from the attempt the task is
\* at to its end; answers[n] is what the exchange answers in attempt n
RECURSIVE close_single_position(_, _, _)
close_single_position(task, amt, answers) ==
    LET a == close_single_attempt(task, amt, answers[task.attempt + 1])
    IN IF a.state = "pending" THEN close_single_position(a.task, a.amt, answers)
       ELSE a

CloseAnswerSeqs == [1..3 -> CloseAnswers]

\* the ends a close task can come to, by symbol, the amount in the
\* snapshot it was created from and the amount on the exchange
CloseTaskTable ==
    [symbol \in Symbols, positionAmt \in ExposureAmts \ {0}, amt \in ExposureAmts |->
        {LET a == close_single_position(
                      NewCloseTask([symbol |-> symbol, positionAmt |-> positionAmt]),
                      amt, answers)
         IN [amt |-> a.amt, state |-> a.state, verified |-> a.verified] :
            answers \in CloseAnswerSeqs}]

CloseTaskOutcomes ==
    [amt : ExposureAmts, state : {"returned", "raised"}, verified : BOOLEAN]

\* main.py:242-247: asyncio.gather without return_exceptions hands the
\* first exception to the waiting shutdown() and leaves the other tasks
\* running
gather_raises(closes, task) == closes \ {task}

\* main.py:255-256 and 305-323: the finally clause of shutdown()
close_connections(b) ==
    [b EXCEPT !.notifier_session = IF @ = "open" THEN "closed" ELSE @,
              !.client_session = IF @ = "open" THEN "closed" ELSE @,
              !.pc = IF b.caller = "except" THEN "finally" ELSE "return"]

MaxCycles == 1    \* trading cycles the specification explores

botFrame == <<tracker, om_tracker, exchange, po, guard, risk, now, monitor>>

InitBot ==
    /\ bot = NewBot
    /\ monitor = [NewMonitor EXCEPT !.pc = "none"]
    /\ tracker = NewTracker
    /\ om_tracker = NewTracker
    /\ exchange = [symbol \in Symbols |-> 0]
    /\ risk = NewRisk(StartTime)
    /\ now = StartTime
    /\ po = Idle
    /\ guard = Idle
    /\ last = Idle

\* main.py:46-56: the notifier (its session is created in __init__,
\* notifier.py:40) or a ValueError
BotInitNotifier(ok) ==
    /\ bot.pc = "initialize"
    /\ bot' = IF ok THEN [bot EXCEPT !.notifier_session = "open", !.pc = "init_client"]
              ELSE [bot EXCEPT !.pc = "except"]
    /\ last' = [op |-> "init_notifier", ok |-> ok]
    /\ UNCHANGED botFrame

\* main.py:58-66: BinanceClient.initialize creates the session and then
\* requests exchangeInfo, which may fail (binance_client.py:87-91)
BotInitClient(ok) ==
    /\ bot.pc = "init_client"
    /\ bot' = [bot EXCEPT !.client_session = "open",
                          !.pc = IF ok THEN "start" ELSE "except"]
    /\ last' = [op |-> "init_client", ok |-> ok]
    /\ UNCHANGED botFrame

\* main.py:114-120: start() sets the flag and creates the monitor task
BotStart ==
    /\ bot.pc = "start"
    /\ bot' = [bot EXCEPT !.running = TRUE, !.pc = "cycle"]
    /\ monitor' = NewMonitor
    /\ last' = [op |-> "start"]
    /\ UNCHANGED <<tracker, om_tracker, exchange, po, guard, risk, now>>

\* main.py:126-128 and 162-171: the loop test and the reconciliation that
\* opens a cycle; get_position_risk raising ends the cycle
CycleBegin(raises) ==
    /\ bot.pc = "cycle"
    /\ bot.running
    /\ bot.cycle < MaxCycles
    /\ IF raises
       THEN /\ bot' = [bot EXCEPT !.cycle = @ + 1]
            /\ UNCHANGED tracker
       ELSE /\ Len(sync_with_exchange(tracker, ExchangeSnapshot, now).closed_positions)
                   <= MaxClosed
            /\ tracker' = sync_with_exchange(tracker, ExchangeSnapshot, now)
            /\ bot' = [bot EXCEPT !.cycle = @ + 1, !.pc = "symbol", !.k = 1]
    /\ last' = [op |-> "cycle_begin", raised |-> raises]
    /\ UNCHANGED <<om_tracker, exchange, po, guard, risk, now, monitor>>

\* main.py:173-200: analyze_market gives a signal or none
CycleSignal(signal) ==
    /\ bot.pc = "symbol"
    /\ bot.k <= Len(SymbolOrder)
    /\ signal \in {NoSignal} \cup EngineSignals(SymbolOrder[bot.k])
    /\ bot' = IF signal = NoSignal THEN [bot EXCEPT !.k = @ + 1]
              ELSE [bot EXCEPT !.signal = signal, !.pc = "gate"]
    /\ last' = [op |-> "analyze_market"]
    /\ UNCHANGED botFrame

\* main.py:203-204
CycleGate(response_raises, notifier_ok) ==
    /\ bot.pc = "gate"
    /\ LET call == can_trade(risk, now, bot.signal.symbol, bot.signal,
                             [raises |-> response_raises, positions |-> ExchangeSnapshot],
                             notifier_ok)
       IN /\ risk' = call.risk
          /\ bot' = after_gate([bot EXCEPT !.gate = [result |-> call.outcome.result,
                                                     signal |-> bot.signal,
                                                     cycle |-> bot.cycle]],
                               call.outcome.result)
          /\ last' = [op |-> "can_trade", result |-> call.outcome.result]
    /\ UNCHANGED <<tracker, om_tracker, exchange, po, guard, now, monitor>>

\* main.py:207: place_order is called
CyclePlaceCall ==
    /\ bot.pc = "place"
    /\ bot' = [bot EXCEPT !.in_flight = Append(@, bot.signal), !.pc = "placing"]
    /\ last' = [op |-> "place_order"]
    /\ UNCHANGED botFrame

\* main.py:207-211: place_order returns or raises (the error is logged)
CyclePlaceReturn(outcome) ==
    /\ bot.pc = "placing"
    /\ outcome \in PlaceOrderTable[bot.signal, exchange[bot.signal.symbol]]
    /\ InExposure(outcome.amt)
    /\ exchange' = [exchange EXCEPT ![bot.signal.symbol] = outcome.amt]
    /\ om_tracker' =
           IF outcome.recorded
           THEN add_position(om_tracker,
                             PlacedPosition([signal |-> bot.signal,
                                             executed |-> outcome.executed,
                                             avg_price |-> outcome.avg_price],
                                            now))
           ELSE om_tracker
    /\ bot' = [bot EXCEPT !.in_flight = Tail(@), !.pc = "symbol", !.k = @ + 1,
                          !.signal = NoSignal, !.gate = NoGate]
    /\ last' = [op |-> "place_order_return", result |-> outcome.result]
    /\ UNCHANGED <<tracker, po, guard, risk, now, monitor>>

\* main.py:127: the for loop is exhausted; start() sleeps
CycleEnd ==
    /\ bot.pc = "symbol"
    /\ bot.k > Len(SymbolOrder)
    /\ bot' = [bot EXCEPT !.pc = "cycle"]
    /\ last' = [op |-> "cycle_end"]
    /\ UNCHANGED botFrame

\* Ctrl-C: the event loop cancels the task of main() at the await it is
\* suspended in; CancelledError is no Exception, so it passes every except
\* clause up to the finally clause of main() (main.py:342-345).  A
\* place_order call in flight is cancelled at its first request.  The
\* locals of the trading loop are dropped with it.
BotInterrupt ==
    /\ bot.pc \in {"cycle", "symbol", "gate", "place", "placing"}
    /\ bot' = [bot EXCEPT !.pc = "finally", !.in_flight = <<>>,
                          !.signal = NoSignal, !.gate = NoGate,
                          !.k = 1, !.cycle = 0]
    /\ last' = [op |-> "interrupt"]
    /\ UNCHANGED botFrame

\* main.py:338-345: shutdown() is called from the except clause (and the
\* error re-raised) and from the finally clause
ShutdownCall ==
    /\ bot.pc \in {"except", "finally"}
    /\ bot' = shutdown_call(bot)
    /\ last' = [op |-> "shutdown"]
    /\ UNCHANGED botFrame

\* main.py:226-240: cancel_all_active_orders (active_orders is empty), then
\* the snapshot and one close task per nonzero position
ShutdownPositions(raises) ==
    /\ bot.pc = "sd_positions"
    /\ bot' = IF raises \/ OpenOnExchange = {}
              THEN [bot EXCEPT !.pc = "sd_notify"]
              ELSE [bot EXCEPT !.pc = "sd_close",
                               !.closes = {NewCloseTask(ExchangeSnapshot[i]) :
                                             i \in {j \in 1..Len(ExchangeSnapshot) :
                                                      ExchangeSnapshot[j].positionAmt # 0}}]
    /\ last' = [op |-> "shutdown_positions", raised |-> raises]
    /\ UNCHANGED botFrame

\* main.py:242-247 and 260-287: a close task runs to its end.  While
\* shutdown() waits for the tasks (sd_close), the first task that raises
\* ends the wait, and so does the last task that returns.  A task that is
\* still running once the sessions are closed has every request refused,
\* which changes nothing: it stays in closes until main() ends.
ShutdownClose(symbol, outcome) ==
    /\ \E t \in bot.closes : t.symbol = symbol
    /\ bot.pc \in {"sd_close", "sd_notify"}
    /\ LET task == CHOOSE t \in bot.closes : t.symbol = symbol
       IN outcome \in CloseTaskTable[symbol, task.positionAmt, exchange[symbol]]
    /\ exchange' = [exchange EXCEPT ![symbol] = outcome.amt]
    /\ bot' =
          LET task == CHOOSE t \in bot.closes : t.symbol = symbol
          IN IF outcome.state = "raised"
             THEN [bot EXCEPT !.closes = gather_raises(@, task),
                              !.pc = IF @ = "sd_close" THEN "sd_notify" ELSE @]
             ELSE [bot EXCEPT !.closes = @ \ {task},
                              !.pc = IF @ = "sd_close" /\ bot.closes = {task}
                                     THEN "sd_notify" ELSE @]
    /\ last' = [op |-> "shutdown_close"]
    /\ UNCHANGED <<tracker, om_tracker, po, guard, risk, now, monitor>>

\* main.py:243-246: the 30 s of asyncio.wait_for elapse; wait_for cancels
\* the gather and with it every task that is still running
ShutdownTimeout ==
    /\ bot.pc = "sd_close"
    /\ bot' = [bot EXCEPT !.closes = {}, !.pc = "sd_notify"]
    /\ last' = [op |-> "shutdown_timeout"]
    /\ UNCHANGED botFrame

\* main.py:250-256 and 305-323: the final notification, sent or failed,
\* and the finally clause of shutdown(), which closes the sessions
ShutdownConnections ==
    /\ bot.pc = "sd_notify"
    /\ bot' = close_connections(bot)
    /\ last' = [op |-> "close_connections"]
    /\ UNCHANGED botFrame

\* main() ends; asyncio.run cancels the tasks that are left
BotExit ==
    /\ bot.pc = "return"
    /\ bot' = [bot EXCEPT !.pc = "exited", !.closes = {}]
    /\ monitor' = IF monitor.pc = "none" THEN monitor
                  ELSE [NewMonitor EXCEPT !.pc = "cancelled"]
    /\ last' = [op |-> "exit"]
    /\ UNCHANGED <<tracker, om_tracker, exchange, po, guard, risk, now>>

NextBot ==
    \/ \E ok \in BOOLEAN : BotInitNotifier(ok)
    \/ \E ok \in BOOLEAN : BotInitClient(ok)
    \/ BotStart
    \/ \E raises \in BOOLEAN : CycleBegin(raises)
    \/ \E signal \in {NoSignal} \cup AllSignals : CycleSignal(signal)
    \/ \E response_raises \in BOOLEAN, notifier_ok \in BOOLEAN :
           CycleGate(response_raises, notifier_ok)
    \/ CyclePlaceCall
    \/ \E outcome \in PlaceOutcomes : CyclePlaceReturn(outcome)
    \/ CycleEnd
    \/ BotInterrupt
    \/ ShutdownCall
    \/ \E raises \in BOOLEAN : ShutdownPositions(raises)
    \/ \E symbol \in Symbols, outcome \in CloseTaskOutcomes :
           ShutdownClose(symbol, outcome)
    \/ ShutdownTimeout
    \/ ShutdownConnections
    \/ BotExit
    \/ MonitorStart
    \/ MonitorPassBegin
    \/ \E current_price \in MonitorPrices, klines \in {None, MarkPrice},
          accepted \in BOOLEAN :
           MonitorIteration(current_price, klines, accepted)
    \/ MonitorPassEnd

SpecBot == InitBot /\ [][NextBot]_vars

(***************************************************************************)
(* C28: risk-gated, sequential admission.  In the trading cycle            *)
(* place_order is invoked for a signal only after can_trade returned true  *)
(* for that same signal in the same cycle, and at most one place_order     *)
(* call is in flight at any time.                                          *)
(***************************************************************************)
C28_GatedSequential ==
    /\ Len(bot.in_flight) <= 1
    /\ bot.pc = "placing" <=> Len(bot.in_flight) = 1
    /\ Len(bot.in_flight) = 1 =>
          bot.gate = [result |-> TRUE, signal |-> bot.in_flight[1], cycle |-> bot.cycle]

C28_Witness ==
    /\ bot.pc = "placing"
    /\ bot.k = 2
    /\ bot.in_flight = <<bot.signal>>
    /\ bot.gate.result
    /\ bot.signal.symbol = "ETHUSDT"

(***************************************************************************)
(* C29 (as claimed): once shutdown() has cleared the running flag, the     *)
(* position monitor's loop terminates, so that the monitor sends no close  *)
(* order concurrently with or after the shutdown's per-symbol close        *)
(* operations.                                                             *)
(***************************************************************************)
C29_AsClaimedStep ==
    bot.shutdown_started =>
        ~(last'.op = "monitor_iteration" /\ last'.orders # <<>>)

C29_AsClaimed == [][C29_AsClaimedStep]_vars

(***************************************************************************)
(* C30 (as claimed): on every path of main() that calls shutdown() after   *)
(* the client or notifier session was created, including a failure inside  *)
(* initialize() before the running flag was ever set, the client and       *)
(* notifier sessions are closed when main() ends.                          *)
(***************************************************************************)
C30_AsClaimed ==
    (bot.pc = "exited" /\ bot.shutdown_calls >= 1) =>
        /\ bot.notifier_session # "open"
        /\ bot.client_session # "open"

(***************************************************************************)
(* C31 (as claimed): during shutdown the network sessions are closed only  *)
(* after every per-symbol close task has finished or the 30 s timeout has  *)
(* elapsed; an exception in one symbol's close task does not release the   *)
(* connections while the close tasks of other symbols are in flight.       *)
(***************************************************************************)
C31_AsClaimedStep ==
    last'.op = "close_connections" => bot.closes = {}

C31_AsClaimed == [][C31_AsClaimedStep]_vars

(***************************************************************************)
(* C40 (as claimed): _close_single_position returns normally only if a     *)
(* position query made after its closing order reported amount zero for    *)
(* the symbol; a position still nonzero, or missing from the query, after  *)
(* 3 attempts makes it raise.                                              *)
(***************************************************************************)
C40_AsClaimed ==
    \A task \in bot.closes :
        \A outcome \in CloseTaskTable[task.symbol, task.positionAmt,
                                      exchange[task.symbol]] :
            outcome.state = "returned" => outcome.verified



=============================================================================
